---- MODULE Spec2Model ----
(***************************************************************************)
(* A model of the room permission engine, the moderation operations, the   *)
(* message lifecycle and the cleanup timer of sogs (sogs/model/room.py,    *)
(* sogs/cleanup.py).  One room is modelled; the database tables are the    *)
(* variables users, rooms, overrides, user_ban_futures,                    *)
(* user_permission_futures, messages and files; the Room instance that     *)
(* serves the calls is the pair (self, perm_cache).                        *)
(*                                                                         *)
(* The SQL schema (the user_permissions view, the column defaults and the  *)
(* message triggers) is not part of the Python sources; the definitions    *)
(* that stand for it say so.  config.REQUIRE_BLIND_KEYS is taken to be     *)
(* off (its default), so no call replaces a user by a blinded one.         *)
(***************************************************************************)
EXTENDS Integers, Sequences, FiniteSets, TLC

\* ------------------------------------------------------------------ bounds
MaxTime == 1
\* SpecMsg makes no message call once the room's message_sequence has reached MaxSeq
MaxSeq == 4
\* SpecPost stores at most MaxStored messages
MaxStored == 2
\* The longest byte string passed to the padding functions
MaxLen == 3
\* The number of posts, edits and deletions that a polling client follows
MaxChanges == 3
\* The limit that the polling client passes to get_messages_for
PollLimit == 1

\* Every check of the moderation calls compares the actor with one target
Users == {1, 2}
\* check_permission(user=None): the anonymous caller
Anon == 0
Times == 0..MaxTime

\* ------------------------------------------------------------- SQL values
\* A nullable boolean column holds NULL, "TRUE" or "FALSE"; NOT NULL boolean
\* columns are TLA+ booleans.
NULL == "NULL"
Tri == {NULL, "TRUE", "FALSE"}
\* Python None / True / False bound to a nullable column
Py2Sql(b) == IF b = "None" THEN NULL ELSE IF b = "True" THEN "TRUE" ELSE "FALSE"
\* bool(c) of a column value read through the view (never NULL there)
COALESCE(c, d) == IF c = NULL THEN d ELSE c = "TRUE"

VARIABLES
    now,                      \* time.time()
    users,                    \* users table: global banned / moderator / admin
    rooms,                    \* the room's row of the rooms table
    overrides,                \* user_permission_overrides rows of the room, by user
    user_ban_futures,         \* user_ban_futures rows of the room
    user_permission_futures,  \* user_permission_futures rows of the room
    messages,                 \* messages rows of the room, by id
    files,                    \* files rows of the room, by id
    disk,                     \* the paths present in the upload directory
    config,                   \* sogs.config: the profanity filter settings
    self,                     \* the Room instance's fields loaded by _refresh
    perm_cache,               \* the Room instance's _perm_cache
    last,                     \* the most recent call and what it returned or raised
    client,                   \* a polling client: its user, the largest seqno and the rows it got
    inflight                  \* the add_post of another request, between its checks and its transaction

vars == <<now, users, rooms, overrides, user_ban_futures, user_permission_futures,
          messages, files, disk, config, self, perm_cache, last, client, inflight>>

\* What no moderation call touches
settings == <<users, config, client, inflight>>
content == <<messages, files, disk>>

\* The empty mapping (a table without rows, an empty dict)
Empty == <<>>

\* -------------------------------------------------------------- the schema
\* Column defaults of a fresh user_permission_overrides row
NewOverride ==
    [read |-> NULL, accessible |-> NULL, write |-> NULL, upload |-> NULL,
     banned |-> FALSE, moderator |-> FALSE, admin |-> FALSE, visible_mod |-> TRUE]

\* Column defaults of a fresh users row
PlainUser == [banned |-> FALSE, moderator |-> FALSE, admin |-> FALSE, visible_mod |-> TRUE]

OverrideOf(ov, u) == IF u \in DOMAIN ov THEN ov[u] ELSE NewOverride

\* INSERT ... ON CONFLICT (room, "user") DO UPDATE: row u becomes r
Upsert(ov, u, r) ==
    IF u \in DOMAIN ov THEN [ov EXCEPT ![u] = r] ELSE ov @@ (u :> r)

\* The user_permissions view row of user u, in the column order that
\* check_permission selects: banned, read, accessible, write, upload,
\* moderator, admin.
UserPermissionsView(us, rm, ov, u) ==
    LET o == OverrideOf(ov, u) IN
    << us[u].banned \/ o.banned,
       COALESCE(o.read, rm.read),
       COALESCE(o.accessible, rm.accessible),
       COALESCE(o.write, rm.write),
       COALESCE(o.upload, rm.upload),
       us[u].moderator \/ o.moderator,
       us[u].admin \/ o.admin >>

UserPermissions(u) == UserPermissionsView(users, rooms, overrides, u)

\* No client polls, and no other request is under way
NoClient == [user |-> 0, cursor |-> 0, view |-> Empty]
Quiet == client = NoClient /\ inflight = <<>>

\* ----------------------------------------------------- Room.check_permission
NoReq == [admin |-> FALSE, moderator |-> FALSE, read |-> FALSE,
          accessible |-> FALSE, write |-> FALSE, upload |-> FALSE]
Reqs == [admin : BOOLEAN, moderator : BOOLEAN, read : BOOLEAN,
         accessible : BOOLEAN, write : BOOLEAN, upload : BOOLEAN]

\* The tuple used for user=None: the instance's defaults, never banned
AnonTuple(inst) ==
    << FALSE, inst.default_read, inst.default_accessible, inst.default_write,
       inst.default_upload, FALSE, FALSE >>

\* Decide with the admin and moderator flags answering only the admin and
\* moderator requirements, the ban and the capabilities being tested for everyone
DecideNoBypass(t, req) ==
    /\ (~req.admin \/ t[7])
    /\ (~req.moderator \/ t[6] \/ t[7])
    /\ ~t[1]
    /\ (~req.accessible \/ t[3] \/ t[2])
    /\ (~req.read \/ t[2])
    /\ (~req.write \/ t[4])
    /\ (~req.upload \/ t[5])

\* Decide with `accessible` satisfied by the accessible flag alone
DecideAccessibleOnly(t, req) ==
    IF t[7] THEN TRUE
    ELSE IF req.admin THEN FALSE
    ELSE IF t[6] THEN TRUE
    ELSE IF req.moderator THEN FALSE
    ELSE /\ ~t[1]
         /\ (~req.accessible \/ t[3])
         /\ (~req.read \/ t[2])
         /\ (~req.write \/ t[4])
         /\ (~req.upload \/ t[5])

\* Lines 458-472: the decision on a resolved 7-tuple
Decide(t, req) ==
    LET is_banned == t[1]
        can_read == t[2]
        can_access == t[3]
        can_write == t[4]
        can_upload == t[5]
        is_mod == t[6]
        is_admin == t[7]
    IN  IF is_admin THEN TRUE
        ELSE IF req.admin THEN FALSE
        ELSE IF is_mod THEN TRUE
        ELSE IF req.moderator THEN FALSE
        ELSE /\ ~is_banned
             /\ (~req.accessible \/ can_access \/ can_read)
             /\ (~req.read \/ can_read)
             /\ (~req.write \/ can_write)
             /\ (~req.upload \/ can_upload)

\* Lines 436-446: the cache after a lookup of user u (a miss queries the view)
CacheFill(cache, u) ==
    IF u = Anon \/ u \in DOMAIN cache THEN cache ELSE cache @@ (u :> UserPermissions(u))

\* A cache from which nothing is evicted
CacheKeep(cache, u) == cache

\* del self._perm_cache[user.id] when present
CacheEvict(cache, u) == [v \in DOMAIN cache \ {u} |-> cache[v]]

\* check_permission(user, **req) on an instance whose cache is `cache`
check_permission(cache, u, req) ==
    IF u = Anon THEN Decide(AnonTuple(self), req)
    ELSE Decide(CacheFill(cache, u)[u], req)

check_admin(cache, u) == check_permission(cache, u, [NoReq EXCEPT !.admin = TRUE])
check_moderator(cache, u) == check_permission(cache, u, [NoReq EXCEPT !.moderator = TRUE])
check_write(cache, u) == check_permission(cache, u, [NoReq EXCEPT !.write = TRUE])
check_read(cache, u) == check_permission(cache, u, [NoReq EXCEPT !.read = TRUE])
check_upload(cache, u) ==
    check_permission(cache, u, [NoReq EXCEPT !.write = TRUE, !.upload = TRUE])

\* check_permission on a freshly loaded Room (empty cache, defaults from the row)
FreshTuple(u) ==
    IF u = Anon
    THEN << FALSE, rooms.read, rooms.accessible, rooms.write, rooms.upload, FALSE, FALSE >>
    ELSE UserPermissions(u)
FreshCheck(u, req) == Decide(FreshTuple(u), req)

\* An Optional value: <<>> is None (NULL in a column), <<v>> is the value v
None == <<>>
Some(v) == <<v>>

\* The record of a call: what it raised, or "ok" (or the returned boolean),
\* and the value it returned when that is not a boolean
Call(op, res) == [op |-> op, res |-> res, ret |-> None]
Return(op, value) == [op |-> op, res |-> "ok", ret |-> Some(value)]

\* Room._refresh: the instance fields loaded from the room's row
Loaded(rm) ==
    [id |-> rm.id, default_read |-> rm.read, default_accessible |-> rm.accessible,
     default_write |-> rm.write, default_upload |-> rm.upload,
     message_sequence |-> rm.message_sequence, image |-> rm.image]

\* ---------------------------------------------------------------- arguments
\* A Python argument that is None, True or False
PyTri == {"None", "True", "False"}
\* An Optional[float] timeout: <<>> is None, <<t>> is the number t
NoTimeout == <<>>
\* `if timeout:` is false for None and for 0
Truthy(timeout) == timeout # NoTimeout /\ timeout[1] # 0

\* ------------------------------------------------------ Room.set_moderator
SetModeratorRow(o, admin, visible) ==
    [o EXCEPT !.moderator = TRUE,
              !.admin = IF admin = "None" THEN @ ELSE admin = "True",
              !.visible_mod = visible]

set_moderator(user, added_by, admin, visible) ==
    LET c1 == CacheFill(perm_cache, added_by) IN
    IF ~check_admin(perm_cache, added_by)
    THEN /\ perm_cache' = c1
         /\ last' = Call("set_moderator", "BadPermission")
         /\ UNCHANGED overrides
    ELSE /\ overrides' = Upsert(overrides, user,
                                SetModeratorRow(OverrideOf(overrides, user), admin, visible))
         /\ perm_cache' = CacheEvict(c1, user)
         /\ last' = Call("set_moderator", "ok")

SetModerator(user, added_by, admin, visible) ==
    /\ set_moderator(user, added_by, admin, visible)
    /\ UNCHANGED <<now, settings, rooms, user_ban_futures, user_permission_futures,
                   content, self>>

\* --------------------------------------------------- Room.remove_moderator
\* The row of an UPDATE that takes the moderator flag and leaves the admin flag
RemoveModeratorRowKeepingAdmin(o, remove_admin_only) ==
    IF remove_admin_only
    THEN [o EXCEPT !.admin = FALSE]
    ELSE [o EXCEPT !.moderator = FALSE, !.visible_mod = TRUE]

RemoveModeratorRow(o, remove_admin_only) ==
    IF remove_admin_only
    THEN [o EXCEPT !.admin = FALSE]
    ELSE [o EXCEPT !.admin = FALSE, !.moderator = FALSE, !.visible_mod = TRUE]

\* remove_moderator asking for moderator rank where admin rank is required
remove_moderator_by_moderator(user, removed_by, remove_admin_only) ==
    LET c1 == CacheFill(perm_cache, removed_by) IN
    IF ~check_moderator(perm_cache, removed_by)
    THEN /\ perm_cache' = c1
         /\ last' = Call("remove_moderator", "BadPermission")
         /\ UNCHANGED overrides
    ELSE /\ overrides' = IF user \in DOMAIN overrides
                         THEN [overrides EXCEPT
                                 ![user] = RemoveModeratorRow(@, remove_admin_only)]
                         ELSE overrides
         /\ perm_cache' = CacheEvict(c1, user)
         /\ last' = Call("remove_moderator", "ok")

remove_moderator(user, removed_by, remove_admin_only) ==
    LET c1 == CacheFill(perm_cache, removed_by) IN
    IF ~check_admin(perm_cache, removed_by)
    THEN /\ perm_cache' = c1
         /\ last' = Call("remove_moderator", "BadPermission")
         /\ UNCHANGED overrides
    ELSE \* an UPDATE: it touches the row only when there is one
         /\ overrides' = IF user \in DOMAIN overrides
                         THEN [overrides EXCEPT
                                 ![user] = RemoveModeratorRow(@, remove_admin_only)]
                         ELSE overrides
         /\ perm_cache' = CacheEvict(c1, user)
         /\ last' = Call("remove_moderator", "ok")

RemoveModerator(user, removed_by, remove_admin_only) ==
    /\ remove_moderator(user, removed_by, remove_admin_only)
    /\ UNCHANGED <<now, settings, rooms, user_ban_futures, user_permission_futures,
                   content, self>>

\* ------------------------------------------------------------ Room.ban_user
\* BanFail without the self-ban test
BanFailSelfAllowed(to_ban, mod) ==
    IF ~check_moderator(perm_cache, mod) THEN "user is not a moderator"
    ELSE IF users[to_ban].moderator THEN "global mods/admins cannot be banned"
    ELSE IF /\ check_moderator(CacheFill(perm_cache, mod), to_ban)
            /\ ~check_admin(CacheFill(perm_cache, mod), mod)
         THEN "only admins can ban room mods/admins"
    ELSE ""

\* Lines 1131-1139: the reason the ban is refused, "" when it is not.  The
\* checks run in this order and stop at the first that fails.
BanFail(to_ban, mod) ==
    IF ~check_moderator(perm_cache, mod) THEN "user is not a moderator"
    ELSE IF to_ban = mod THEN "self-ban not permitted"
    ELSE IF users[to_ban].moderator THEN "global mods/admins cannot be banned"
    ELSE IF /\ check_moderator(CacheFill(perm_cache, mod), to_ban)
            /\ ~check_admin(CacheFill(perm_cache, mod), mod)
         THEN "only admins can ban room mods/admins"
    ELSE ""

\* The cache after the checks of lines 1131-1139: to_ban is looked up only
\* when the fourth check is reached
BanCache(to_ban, mod) ==
    LET c1 == CacheFill(perm_cache, mod) IN
    IF ~check_moderator(perm_cache, mod) \/ to_ban = mod \/ users[to_ban].moderator
    THEN c1
    ELSE CacheFill(c1, to_ban)

BanRow(o) == [o EXCEPT !.banned = TRUE, !.moderator = FALSE, !.admin = FALSE]

\* The futures of a ban that leaves the scheduled unban where it is
BanFuturesKept(futures, to_ban, timeout) ==
    IF Truthy(timeout)
    THEN futures \cup {[user |-> to_ban, banned |-> FALSE, at |-> now + timeout[1]]}
    ELSE futures

\* Lines 1158-1173: the scheduled unban is removed, and replaced when a
\* timeout is given
BanFutures(futures, to_ban, timeout) ==
    LET kept == {f \in futures : ~(f.user = to_ban /\ ~f.banned)} IN
    IF Truthy(timeout)
    THEN kept \cup {[user |-> to_ban, banned |-> FALSE, at |-> now + timeout[1]]}
    ELSE kept

ban_user(to_ban, mod, timeout) ==
    IF BanFail(to_ban, mod) # ""
    THEN /\ perm_cache' = BanCache(to_ban, mod)
         /\ last' = Call("ban_user", BanFail(to_ban, mod))
         /\ UNCHANGED <<overrides, user_ban_futures>>
    ELSE /\ overrides' = Upsert(overrides, to_ban, BanRow(OverrideOf(overrides, to_ban)))
         /\ user_ban_futures' = BanFutures(user_ban_futures, to_ban, timeout)
         /\ perm_cache' = CacheEvict(BanCache(to_ban, mod), to_ban)
         /\ last' = Call("ban_user", "ok")

BanUser(to_ban, mod, timeout) ==
    /\ ban_user(to_ban, mod, timeout)
    /\ UNCHANGED <<now, settings, rooms, user_permission_futures, content, self>>

\* ---------------------------------------------------------- Room.unban_user
unban_user(to_unban, mod) ==
    LET c1 == CacheFill(perm_cache, mod)
        hit == to_unban \in DOMAIN overrides /\ overrides[to_unban].banned
    IN
    IF ~check_moderator(perm_cache, mod)
    THEN /\ perm_cache' = c1
         /\ last' = Call("unban_user", "BadPermission")
         /\ UNCHANGED overrides
    ELSE IF hit
    THEN /\ overrides' = [overrides EXCEPT ![to_unban].banned = FALSE]
         /\ perm_cache' = CacheEvict(c1, to_unban)
         /\ last' = Call("unban_user", "True")
    ELSE /\ perm_cache' = c1
         /\ last' = Call("unban_user", "False")
         /\ UNCHANGED overrides

UnbanUser(to_unban, mod) ==
    /\ unban_user(to_unban, mod)
    /\ UNCHANGED <<now, settings, rooms, user_ban_futures, user_permission_futures,
                   content, self>>

\* ------------------------------------------------------ Room.set_permissions
perm_types == {"read", "accessible", "write", "upload"}

\* The row of an upsert that replaces the whole row: the columns that perms
\* does not name become NULL
SetPermissionsRowReplaced(o, perms) ==
    [read |-> IF "read" \in DOMAIN perms THEN Py2Sql(perms["read"]) ELSE NULL,
     accessible |-> IF "accessible" \in DOMAIN perms
                    THEN Py2Sql(perms["accessible"]) ELSE NULL,
     write |-> IF "write" \in DOMAIN perms THEN Py2Sql(perms["write"]) ELSE NULL,
     upload |-> IF "upload" \in DOMAIN perms THEN Py2Sql(perms["upload"]) ELSE NULL,
     banned |-> o.banned, moderator |-> o.moderator, admin |-> o.admin,
     visible_mod |-> o.visible_mod]

\* The row with the columns named in perms set to their values
SetPermissionsRow(o, perms) ==
    [read |-> IF "read" \in DOMAIN perms THEN Py2Sql(perms["read"]) ELSE o.read,
     accessible |-> IF "accessible" \in DOMAIN perms
                    THEN Py2Sql(perms["accessible"]) ELSE o.accessible,
     write |-> IF "write" \in DOMAIN perms THEN Py2Sql(perms["write"]) ELSE o.write,
     upload |-> IF "upload" \in DOMAIN perms THEN Py2Sql(perms["upload"]) ELSE o.upload,
     banned |-> o.banned, moderator |-> o.moderator, admin |-> o.admin,
     visible_mod |-> o.visible_mod]

\* set_permissions that leaves the user's cached tuple in place
set_permissions_keeps_cache(user, mod, perms) ==
    LET c1 == CacheFill(perm_cache, mod) IN
    IF DOMAIN perms = {}
    THEN /\ last' = Call("set_permissions", "ValueError")
         /\ UNCHANGED <<overrides, perm_cache>>
    ELSE IF ~check_moderator(perm_cache, mod)
    THEN /\ perm_cache' = c1
         /\ last' = Call("set_permissions", "BadPermission")
         /\ UNCHANGED overrides
    ELSE /\ overrides' = Upsert(overrides, user,
                                SetPermissionsRow(OverrideOf(overrides, user), perms))
         /\ perm_cache' = c1
         /\ last' = Call("set_permissions", "ok")

set_permissions(user, mod, perms) ==
    LET c1 == CacheFill(perm_cache, mod) IN
    IF DOMAIN perms = {}
    THEN /\ last' = Call("set_permissions", "ValueError")
         /\ UNCHANGED <<overrides, perm_cache>>
    ELSE IF ~check_moderator(perm_cache, mod)
    THEN /\ perm_cache' = c1
         /\ last' = Call("set_permissions", "BadPermission")
         /\ UNCHANGED overrides
    ELSE /\ overrides' = Upsert(overrides, user,
                                SetPermissionsRow(OverrideOf(overrides, user), perms))
         /\ perm_cache' = CacheEvict(c1, user)
         /\ last' = Call("set_permissions", "ok")

SetPermissions(user, mod, perms) ==
    /\ set_permissions(user, mod, perms)
    /\ UNCHANGED <<now, settings, rooms, user_ban_futures, user_permission_futures,
                   content, self>>

\* ------------------------------------------- Room.default_* setters, _refresh
\* Lines 337-375: a changed default is written and the instance reloaded with
\* perms=True, which empties the permission cache
SetDefaultRead(read) ==
    /\ IF read # self.default_read
       THEN /\ rooms' = [rooms EXCEPT !.read = read]
            /\ self' = Loaded(rooms')
            /\ perm_cache' = Empty
       ELSE UNCHANGED <<rooms, self, perm_cache>>
    /\ last' = Call("default_read", "ok")
    /\ UNCHANGED <<now, settings, overrides, user_ban_futures, user_permission_futures,
                   content>>

SetDefaultAccessible(accessible) ==
    /\ IF accessible # self.default_accessible
       THEN /\ rooms' = [rooms EXCEPT !.accessible = accessible]
            /\ self' = Loaded(rooms')
            /\ perm_cache' = Empty
       ELSE UNCHANGED <<rooms, self, perm_cache>>
    /\ last' = Call("default_accessible", "ok")
    /\ UNCHANGED <<now, settings, overrides, user_ban_futures, user_permission_futures,
                   content>>

SetDefaultWrite(write) ==
    /\ IF write # self.default_write
       THEN /\ rooms' = [rooms EXCEPT !.write = write]
            /\ self' = Loaded(rooms')
            /\ perm_cache' = Empty
       ELSE UNCHANGED <<rooms, self, perm_cache>>
    /\ last' = Call("default_write", "ok")
    /\ UNCHANGED <<now, settings, overrides, user_ban_futures, user_permission_futures,
                   content>>

SetDefaultUpload(upload) ==
    /\ IF upload # self.default_upload
       THEN /\ rooms' = [rooms EXCEPT !.upload = upload]
            /\ self' = Loaded(rooms')
            /\ perm_cache' = Empty
       ELSE UNCHANGED <<rooms, self, perm_cache>>
    /\ last' = Call("default_upload", "ok")
    /\ UNCHANGED <<now, settings, overrides, user_ban_futures, user_permission_futures,
                   content>>

\* Room.__init__: a new request loads the room anew, with an empty cache
LoadRoom ==
    /\ self' = Loaded(rooms)
    /\ perm_cache' = Empty
    /\ last' = Call("Room", "ok")
    /\ UNCHANGED <<now, settings, rooms, overrides, user_ban_futures,
                   user_permission_futures, content>>

\* Lines 476-496: the shortcuts of check_permission, by name
Shortcuts ==
    [check_unbanned |-> NoReq,
     check_read |-> [NoReq EXCEPT !.read = TRUE],
     check_accessible |-> [NoReq EXCEPT !.accessible = TRUE],
     check_write |-> [NoReq EXCEPT !.write = TRUE],
     check_upload |-> [NoReq EXCEPT !.write = TRUE, !.upload = TRUE],
     check_moderator |-> [NoReq EXCEPT !.moderator = TRUE],
     check_admin |-> [NoReq EXCEPT !.admin = TRUE]]

\* A call of one of the shortcuts: the result is returned and the looked-up
\* tuple stays in the cache
CheckPermission(user, shortcut) ==
    /\ perm_cache' = CacheFill(perm_cache, user)
    /\ last' = Call(shortcut,
                    IF check_permission(perm_cache, user, Shortcuts[shortcut])
                    THEN "True" ELSE "False")
    /\ UNCHANGED <<now, settings, rooms, overrides, user_ban_futures,
                   user_permission_futures, content, self>>

\* ------------------------------------------------------------ sogs/cleanup.py
\* A nullable number: <<>> is NULL, <<x>> is x.  A comparison with NULL is
\* not true.
Lt(x, t) == x # <<>> /\ x[1] < t
Le(x, t) == x # <<>> /\ x[1] <= t

\* prune_files: the rows selected for unlinking and the rows deleted
PruneSelected == {f \in DOMAIN files : Lt(files[f].expiry, now)}
PruneDeleted == {f \in DOMAIN files : Le(files[f].expiry, now)}

prune_files ==
    IF PruneSelected = {}
    THEN UNCHANGED <<files, disk>>
    ELSE /\ files' = [f \in DOMAIN files \ PruneDeleted |-> files[f]]
         /\ disk' = disk \ PruneSelected

\* The sequences that list every element of S once: the orders in which an
\* INSERT ... SELECT may produce the rows of S
Orders(S) ==
    {q \in [1..Cardinality(S) -> S] : \A i, j \in 1..Cardinality(S) : q[i] = q[j] => i = j}

\* ON CONFLICT DO UPDATE SET c = excluded.c, for read, write, upload
MergeFutureWithNulls(o, f) ==
    [o EXCEPT !.read = f.read, !.write = f.write, !.upload = f.upload]

\* ON CONFLICT DO UPDATE SET c = COALESCE(excluded.c, c), for read, write, upload
MergeFuture(o, f) ==
    [o EXCEPT !.read = IF f.read # NULL THEN f.read ELSE @,
              !.write = IF f.write # NULL THEN f.write ELSE @,
              !.upload = IF f.upload # NULL THEN f.upload ELSE @]

RECURSIVE ApplyFutures(_, _)
ApplyFutures(ov, q) ==
    IF q = <<>> THEN ov
    ELSE ApplyFutures(Upsert(ov, Head(q).user, MergeFuture(OverrideOf(ov, Head(q).user), Head(q))),
                      Tail(q))

\* The futures selected by WHERE at < now
DueFuturesPast == {f \in user_permission_futures : f.at < now}

DueFutures == {f \in user_permission_futures : f.at <= now}

\* cur.rowcount of the INSERT ... SELECT: one per selected row
num_applied == Cardinality(DueFutures)

\* apply_permission_updates that leaves the applied rows in the table
apply_permission_updates_keeping_futures ==
    IF DueFutures = {}
    THEN UNCHANGED <<overrides, user_permission_futures>>
    ELSE /\ \E q \in Orders(DueFutures) : overrides' = ApplyFutures(overrides, q)
         /\ UNCHANGED user_permission_futures

apply_permission_updates ==
    IF DueFutures = {}
    THEN UNCHANGED <<overrides, user_permission_futures>>
    ELSE /\ \E q \in Orders(DueFutures) : overrides' = ApplyFutures(overrides, q)
         /\ user_permission_futures' = user_permission_futures \ DueFutures

\* test_timer: one run of the cleanup timer.  prune_message_history and
\* prune_room_activity delete from tables that are not part of this model.
Sweeper ==
    /\ prune_files
    /\ apply_permission_updates
    /\ last' = Call("test_timer", "ok")
    /\ UNCHANGED <<now, settings, rooms, user_ban_futures, messages, self, perm_cache>>

\* Time passes
\* One call of apply_permission_updates by itself, with the count it returns
ApplyPermissionUpdates ==
    /\ apply_permission_updates
    /\ last' = Return("apply_permission_updates", num_applied)
    /\ UNCHANGED <<now, settings, rooms, user_ban_futures, content, self, perm_cache>>

\* One call of prune_files by itself, with the count it returns:
\* len(to_remove), 0 when nothing was selected
PruneFiles ==
    /\ prune_files
    /\ last' = Return("prune_files", Cardinality(PruneSelected))
    /\ UNCHANGED <<now, settings, rooms, overrides, user_ban_futures,
                   user_permission_futures, messages, self, perm_cache>>

\* INSERT INTO user_permission_futures: a change of read, write and upload
\* (NULL for no change) of `user`, to be applied at time `at`
FutureRow(user, at, read, write, upload) ==
    [user |-> user, at |-> at, read |-> read, write |-> write, upload |-> upload]

ScheduleFuture(user, at, read, write, upload) ==
    /\ user_permission_futures' =
          user_permission_futures \cup {FutureRow(user, at, read, write, upload)}
    /\ last' = Call("user_permission_futures", "ok")
    /\ UNCHANGED <<now, settings, rooms, overrides, user_ban_futures, content, self,
                   perm_cache>>

Tick ==
    /\ now < MaxTime
    /\ now' = now + 1
    /\ UNCHANGED <<settings, rooms, overrides, user_ban_futures, user_permission_futures,
                   content, self, perm_cache, last>>

\* ------------------------------------------------------------------ bytes
\* A bytes value is a sequence of numbers in 0..255.

\* data[-1] in (b'\x00', b'\x80'): data[-1] is an int, the members of the
\* tuple are bytes objects, and an int equals no bytes object
IntInBytesTuple(byte, tuple) == FALSE

\* data.rstrip(bytes([byte]))
RECURSIVE rstrip(_, _)
rstrip(data, byte) ==
    IF data # <<>> /\ data[Len(data)] = byte
    THEN rstrip(SubSeq(data, 1, Len(data) - 1), byte)
    ELSE data

\* utils.remove_session_message_padding
remove_session_message_padding(data) ==
    IF data # <<>> /\ IntInBytesTuple(data[Len(data)], {<<0>>, <<128>>})
    THEN LET stripped_data == rstrip(data, 0) IN
         IF stripped_data # <<>> /\ stripped_data[Len(stripped_data)] = 128
         THEN SubSeq(stripped_data, 1, Len(stripped_data) - 1)
         ELSE data
    ELSE data

\* add_session_message_padding that appends the padding whatever the length
add_session_message_padding_always(data, length) ==
    data \o <<128>> \o [i \in 1..(length - Len(data)) |-> 0]

\* utils.add_session_message_padding
add_session_message_padding(data, length) ==
    IF length > Len(data)
    THEN data \o <<128>> \o [i \in 1..(length - Len(data)) |-> 0]
    ELSE data

\* ------------------------------------------------- the messages of the room
rate_limit_size == 5
rate_limit_interval == 16
\* len(sig) != 64
SignatureSize == 64
\* message_ids[i : i + 50]
BatchSize == 50
\* uploaded >= time.time() - 3600
RecentUpload == 3600

\* The messages table of the room with the room's counter: what a statement
\* on messages reads and writes
Db == [messages |-> messages, message_sequence |-> rooms.message_sequence]

\* The row of an INSERT INTO messages, before the insert trigger stamps it
MessageRow(user, data, data_size, sig, filtered, whisper, whisper_mods) ==
    [room |-> self.id, user |-> user, data |-> Some(data), data_size |-> Some(data_size),
     signature |-> Some(sig), seqno |-> 0, posted |-> now, edited |-> None,
     filtered |-> filtered, whisper |-> whisper, whisper_mods |-> whisper_mods]

\* INSERT INTO messages: the row gets the next id and, from the trigger, the
\* room's incremented message_sequence as its seqno
InsertMessage(t, row) ==
    LET seq == t.message_sequence + 1 IN
    [messages |-> Append(t.messages, [row EXCEPT !.seqno = seq]),
     message_sequence |-> seq]

\* An update of a message that leaves the room's counter and the row's seqno alone
UpdateMessageUnstamped(t, m, data, data_size, sig) ==
    [messages |-> [t.messages EXCEPT ![m] =
                     [@ EXCEPT !.data = Some(data), !.data_size = Some(data_size),
                               !.signature = Some(sig), !.edited = Some(now)]],
     message_sequence |-> t.message_sequence]

\* UPDATE messages SET data, data_size, signature WHERE id = m: the trigger
\* stamps the row with the incremented message_sequence and the edit time
UpdateMessage(t, m, data, data_size, sig) ==
    LET seq == t.message_sequence + 1 IN
    [messages |-> [t.messages EXCEPT ![m] =
                     [@ EXCEPT !.data = Some(data), !.data_size = Some(data_size),
                               !.signature = Some(sig), !.seqno = seq,
                               !.edited = Some(now)]],
     message_sequence |-> seq]

\* A deletion that leaves the room's counter and the row's seqno alone
DeleteMessageDetailsUnstamped(t, m) ==
    [messages |-> [t.messages EXCEPT ![m] =
                     [@ EXCEPT !.data = None, !.data_size = None, !.signature = None]],
     message_sequence |-> t.message_sequence]

\* DELETE FROM message_details of row m: a row that still has data loses
\* data, data_size and signature and is stamped; a deleted row stays as it is
DeleteMessageDetails(t, m) ==
    IF t.messages[m].data = None
    THEN t
    ELSE LET seq == t.message_sequence + 1 IN
         [messages |-> [t.messages EXCEPT ![m] =
                          [@ EXCEPT !.data = None, !.data_size = None,
                                    !.signature = None, !.seqno = seq]],
          message_sequence |-> seq]

\* DELETE FROM message_details of several rows, in the order q
RECURSIVE DeleteEach(_, _)
DeleteEach(t, q) ==
    IF q = <<>> THEN t ELSE DeleteEach(DeleteMessageDetails(t, Head(q)), Tail(q))

\* better_profanity's verdict on the body of the message
contains_profanity(data) == \E i \in DOMAIN data : data[i] = 66

\* Room.should_filter: "False", "True", or the exception raised
should_filter(cache, user, data) ==
    IF config.PROFANITY_FILTER /\ ~check_admin(cache, user) /\ contains_profanity(data)
    THEN IF config.PROFANITY_SILENT THEN "True" ELSE "PostRejected"
    ELSE "False"

\* Room._own_files: the files table after the UPDATE
own_files(fs, msg_id, file_ids, user) ==
    LET expiry == IF config.UPLOAD_DEFAULT_EXPIRY # 0
                  THEN Some(now + config.UPLOAD_DEFAULT_EXPIRY)
                  ELSE None
        ids == {file_ids[k] : k \in DOMAIN file_ids}
    IN  [f \in DOMAIN fs |->
           IF /\ f \in ids
              /\ fs[f].room = self.id
              /\ fs[f].uploader = user
              /\ fs[f].message = None
              /\ fs[f].uploaded >= now - RecentUpload
              /\ fs[f].expiry # None
           THEN [fs[f] EXCEPT !.message = Some(msg_id), !.expiry = expiry]
           ELSE fs[f]]

\* The whisper_to argument: None, a User object <<"User", id>>, or a session
\* id <<"str", id>>, where id is the id of the users row that has, or will
\* get, that session id.

\* User(session_id=..., autovivify=True): an unknown session id gets a users row
Autovivify(us, whisper_to) ==
    IF whisper_to # None /\ whisper_to[1] = "str" /\ whisper_to[2] \notin DOMAIN us
    THEN us @@ (whisper_to[2] :> PlainUser)
    ELSE us

\* A count of the user's messages of any age
PostsOfAnyAge(user) ==
    {m \in DOMAIN messages : messages[m].room = self.id /\ messages[m].user = user}

\* The messages of `user` that the rate limit counts
RecentPosts(user) ==
    {m \in DOMAIN messages :
        /\ messages[m].room = self.id
        /\ messages[m].user = user
        /\ messages[m].posted >= now - rate_limit_interval}

\* -------------------------------------------------------------- Room.add_post
add_post(user, data, sig, whisper_to, whisper_mods, file_ids) ==
    LET c1 == CacheFill(perm_cache, user)
        whisper == whisper_to # None \/ whisper_mods
        us1 == Autovivify(users, whisper_to)
        msg_id == Len(messages) + 1
        filtered == should_filter(c1, user, data[1])
        row == MessageRow(user, remove_session_message_padding(data[1]), Len(data[1]),
                          sig[1], filtered = "True",
                          IF whisper_to = None THEN None ELSE Some(whisper_to[2]),
                          whisper_mods)
        t == InsertMessage(Db, row)
        msg == [id |-> msg_id, session_id |-> user, posted |-> t.messages[msg_id].posted,
                seqno |-> t.messages[msg_id].seqno, data |-> data[1], signature |-> sig[1],
                whisper |-> whisper, whisper_mods |-> whisper_mods,
                whisper_to |-> IF whisper_to = None THEN None ELSE Some(whisper_to[2])]
    IN
    /\ perm_cache' = c1
    /\ IF ~check_write(c1, user)
       THEN /\ last' = Call("add_post", "BadPermission")
            /\ UNCHANGED <<users, messages, rooms, files>>
       ELSE IF data = None \/ sig = None \/ Len(sig[1]) # SignatureSize
       THEN /\ last' = Call("add_post", "InvalidData")
            /\ UNCHANGED <<users, messages, rooms, files>>
       ELSE IF whisper /\ ~check_moderator(c1, user)
       THEN /\ last' = Call("add_post", "BadPermission")
            /\ UNCHANGED <<users, messages, rooms, files>>
       ELSE IF filtered = "PostRejected"
       THEN /\ users' = us1
            /\ last' = Call("add_post", "PostRejected")
            /\ UNCHANGED <<messages, rooms, files>>
       ELSE IF /\ rate_limit_size # 0
               /\ ~check_admin(c1, user)
               /\ Cardinality(RecentPosts(user)) >= rate_limit_size
       THEN /\ users' = us1
            /\ last' = Call("add_post", "PostRateLimited")
            /\ UNCHANGED <<messages, rooms, files>>
       ELSE /\ users' = us1
            /\ messages' = t.messages
            /\ rooms' = [rooms EXCEPT !.message_sequence = t.message_sequence]
            /\ files' = IF file_ids # <<>>
                        THEN own_files(files, msg_id, file_ids, user)
                        ELSE files
            /\ last' = Return("add_post", msg)

AddPost(user, data, sig, whisper_to, whisper_mods, file_ids) ==
    /\ add_post(user, data, sig, whisper_to, whisper_mods, file_ids)
    /\ UNCHANGED <<now, config, client, inflight, overrides, user_ban_futures,
                   user_permission_futures,
                   disk, self>>

\* ------------------------------------------------------------- Room.edit_post
\* edit_post without the test of the author
edit_post_by_anyone(user, msg_id, data, sig, file_ids) ==
    LET c1 == CacheFill(perm_cache, user)
        filtered == should_filter(c1, user, data[1])
        found == /\ msg_id \in DOMAIN messages
                 /\ messages[msg_id].room = self.id
                 /\ messages[msg_id].data # None
        t == UpdateMessage(Db, msg_id, remove_session_message_padding(data[1]),
                           Len(data[1]), sig[1])
    IN
    /\ perm_cache' = c1
    /\ IF ~check_write(c1, user)
       THEN /\ last' = Call("edit_post", "BadPermission")
            /\ UNCHANGED <<messages, rooms, files>>
       ELSE IF data = None \/ sig = None \/ Len(sig[1]) # SignatureSize
       THEN /\ last' = Call("edit_post", "InvalidData")
            /\ UNCHANGED <<messages, rooms, files>>
       ELSE IF filtered = "PostRejected"
       THEN /\ last' = Call("edit_post", "PostRejected")
            /\ UNCHANGED <<messages, rooms, files>>
       ELSE IF ~found
       THEN /\ last' = Call("edit_post", "NoSuchPost")
            /\ UNCHANGED <<messages, rooms, files>>
       ELSE IF filtered = "True"
       THEN \* the silently filtered edit is dropped
            /\ last' = Call("edit_post", "ok")
            /\ UNCHANGED <<messages, rooms, files>>
       ELSE /\ messages' = t.messages
            /\ rooms' = [rooms EXCEPT !.message_sequence = t.message_sequence]
            /\ files' = IF file_ids # <<>>
                        THEN own_files(files, msg_id, file_ids, user)
                        ELSE files
            /\ last' = Call("edit_post", "ok")

\* edit_post that applies the silently filtered edit like any other
edit_post_filtered_applied(user, msg_id, data, sig, file_ids) ==
    LET c1 == CacheFill(perm_cache, user)
        filtered == should_filter(c1, user, data[1])
        found == /\ msg_id \in DOMAIN messages
                 /\ messages[msg_id].room = self.id
                 /\ messages[msg_id].data # None
        t == UpdateMessage(Db, msg_id, remove_session_message_padding(data[1]),
                           Len(data[1]), sig[1])
    IN
    /\ perm_cache' = c1
    /\ IF ~check_write(c1, user)
       THEN /\ last' = Call("edit_post", "BadPermission")
            /\ UNCHANGED <<messages, rooms, files>>
       ELSE IF data = None \/ sig = None \/ Len(sig[1]) # SignatureSize
       THEN /\ last' = Call("edit_post", "InvalidData")
            /\ UNCHANGED <<messages, rooms, files>>
       ELSE IF filtered = "PostRejected"
       THEN /\ last' = Call("edit_post", "PostRejected")
            /\ UNCHANGED <<messages, rooms, files>>
       ELSE IF ~found
       THEN /\ last' = Call("edit_post", "NoSuchPost")
            /\ UNCHANGED <<messages, rooms, files>>
       ELSE IF messages[msg_id].user # user
       THEN /\ last' = Call("edit_post", "BadPermission")
            /\ UNCHANGED <<messages, rooms, files>>
       ELSE /\ messages' = t.messages
            /\ rooms' = [rooms EXCEPT !.message_sequence = t.message_sequence]
            /\ files' = IF file_ids # <<>>
                        THEN own_files(files, msg_id, file_ids, user)
                        ELSE files
            /\ last' = Call("edit_post", "ok")

edit_post(user, msg_id, data, sig, file_ids) ==
    LET c1 == CacheFill(perm_cache, user)
        filtered == should_filter(c1, user, data[1])
        found == /\ msg_id \in DOMAIN messages
                 /\ messages[msg_id].room = self.id
                 /\ messages[msg_id].data # None
        t == UpdateMessage(Db, msg_id, remove_session_message_padding(data[1]),
                           Len(data[1]), sig[1])
    IN
    /\ perm_cache' = c1
    /\ IF ~check_write(c1, user)
       THEN /\ last' = Call("edit_post", "BadPermission")
            /\ UNCHANGED <<messages, rooms, files>>
       ELSE IF data = None \/ sig = None \/ Len(sig[1]) # SignatureSize
       THEN /\ last' = Call("edit_post", "InvalidData")
            /\ UNCHANGED <<messages, rooms, files>>
       ELSE IF filtered = "PostRejected"
       THEN /\ last' = Call("edit_post", "PostRejected")
            /\ UNCHANGED <<messages, rooms, files>>
       ELSE IF ~found
       THEN /\ last' = Call("edit_post", "NoSuchPost")
            /\ UNCHANGED <<messages, rooms, files>>
       ELSE IF messages[msg_id].user # user
       THEN /\ last' = Call("edit_post", "BadPermission")
            /\ UNCHANGED <<messages, rooms, files>>
       ELSE IF filtered = "True"
       THEN \* the silently filtered edit is dropped
            /\ last' = Call("edit_post", "ok")
            /\ UNCHANGED <<messages, rooms, files>>
       ELSE /\ messages' = t.messages
            /\ rooms' = [rooms EXCEPT !.message_sequence = t.message_sequence]
            /\ files' = IF file_ids # <<>>
                        THEN own_files(files, msg_id, file_ids, user)
                        ELSE files
            /\ last' = Call("edit_post", "ok")

EditPost(user, msg_id, data, sig, file_ids) ==
    /\ edit_post(user, msg_id, data, sig, file_ids)
    /\ UNCHANGED <<now, settings, overrides, user_ban_futures, user_permission_futures,
                   disk, self>>

\* ----------------------------------------------------------- Room.delete_posts
\* The ids of message_ids[i : i + 50] that are rows of the room with data
Slice(message_ids, i) ==
    {message_ids[k] : k \in {k \in DOMAIN message_ids : i < k /\ k <= i + BatchSize}}
\* The ids that are rows of the room, deleted or not
KnownIds(msgs, ids) == {m \in ids : m \in DOMAIN msgs /\ msgs[m].room = self.id}
LiveIds(msgs, ids) ==
    {m \in ids : m \in DOMAIN msgs /\ msgs[m].room = self.id /\ msgs[m].data # None}

\* The loop over the batches from offset i on: the outcomes it can have,
\* the rows of a batch being deleted in any order.  `deleted` lists the ids in
\* the order of their deletion.
RECURSIVE delete_batches(_, _, _, _, _, _)
delete_batches(t, deleted, message_ids, i, is_moderator, deleter) ==
    IF i >= Len(message_ids)
    THEN {[raised |-> FALSE, t |-> t, deleted |-> deleted]}
    ELSE LET ids == LiveIds(t.messages, Slice(message_ids, i)) IN
         IF ids = {}
         THEN delete_batches(t, deleted, message_ids, i + BatchSize, is_moderator, deleter)
         ELSE IF ~is_moderator /\ \E m \in ids : t.messages[m].user # deleter
         THEN {[raised |-> TRUE, t |-> t, deleted |-> deleted]}
         ELSE UNION {delete_batches(DeleteEach(t, q), deleted \o q, message_ids,
                                    i + BatchSize, is_moderator, deleter) :
                        q \in Orders(ids)}

\* delete_posts committing what the batches before the refused one deleted
delete_posts_without_rollback(message_ids, deleter) ==
    LET all == {message_ids[k] : k \in DOMAIN message_ids}
        checked == LiveIds(messages, all) # {}
        c1 == IF checked THEN CacheFill(perm_cache, deleter) ELSE perm_cache
    IN
    /\ perm_cache' = c1
    /\ \E out \in delete_batches(Db, <<>>, message_ids, 0,
                                 check_moderator(c1, deleter), deleter) :
          /\ messages' = out.t.messages
          /\ rooms' = [rooms EXCEPT !.message_sequence = out.t.message_sequence]
          /\ last' = IF out.raised THEN Call("delete_posts", "BadPermission")
                     ELSE Return("delete_posts", out.deleted)

delete_posts(message_ids, deleter) ==
    LET all == {message_ids[k] : k \in DOMAIN message_ids}
        \* check_moderator is reached when some batch has a row to delete
        checked == LiveIds(messages, all) # {}
        c1 == IF checked THEN CacheFill(perm_cache, deleter) ELSE perm_cache
    IN
    /\ perm_cache' = c1
    /\ \E out \in delete_batches(Db, <<>>, message_ids, 0,
                                 check_moderator(c1, deleter), deleter) :
          IF out.raised
          THEN \* the transaction is rolled back
               /\ last' = Call("delete_posts", "BadPermission")
               /\ UNCHANGED <<messages, rooms>>
          ELSE /\ messages' = out.t.messages
               /\ rooms' = [rooms EXCEPT !.message_sequence = out.t.message_sequence]
               /\ last' = Return("delete_posts", out.deleted)

DeletePosts(message_ids, deleter) ==
    /\ delete_posts(message_ids, deleter)
    /\ UNCHANGED <<now, settings, overrides, user_ban_futures, user_permission_futures,
                   files, disk, self>>

\* ------------------------------------------------------- Room.delete_all_posts
\* image.id when the room has an image that `poster` uploaded, None otherwise
OmitId(poster) ==
    IF /\ self.image # None
       /\ self.image[1] \in DOMAIN files
       /\ files[self.image[1]].uploader = poster
    THEN self.image
    ELSE None

\* delete_all_posts that lets a moderator delete the posts of an admin
delete_all_posts_by_moderator(poster, deleter) ==
    LET not_moderator == poster # deleter /\ ~check_moderator(perm_cache, deleter)
        c1 == IF poster # deleter THEN CacheFill(perm_cache, deleter) ELSE perm_cache
        rows == {m \in DOMAIN messages : messages[m].room = self.id
                                         /\ messages[m].user = poster}
        deleted == {m \in rows : messages[m].data # None}
        expired == {f \in DOMAIN files : /\ files[f].room = self.id
                                         /\ files[f].uploader = poster
                                         /\ Some(f) # OmitId(poster)}
    IN
    /\ perm_cache' = c1
    /\ IF not_moderator
       THEN /\ last' = Call("delete_all_posts", "BadPermission")
            /\ UNCHANGED <<messages, rooms, files>>
       ELSE /\ \E q \in Orders(rows) :
                 LET t == DeleteEach(Db, q) IN
                 /\ messages' = t.messages
                 /\ rooms' = [rooms EXCEPT !.message_sequence = t.message_sequence]
            /\ files' = [f \in DOMAIN files |->
                           IF f \in expired THEN [files[f] EXCEPT !.expiry = Some(0)]
                           ELSE files[f]]
            /\ last' = Return("delete_all_posts",
                              <<Cardinality(deleted), Cardinality(expired)>>)

\* delete_all_posts that expires the room's image as well
delete_all_posts_image_too(poster, deleter) ==
    LET not_moderator == poster # deleter /\ ~check_moderator(perm_cache, deleter)
        c1 == IF poster # deleter THEN CacheFill(perm_cache, deleter) ELSE perm_cache
        c2 == IF not_moderator THEN c1 ELSE CacheFill(c1, poster)
        fail == \/ not_moderator
                \/ check_admin(c2, poster) /\ ~check_admin(c2, deleter)
        rows == {m \in DOMAIN messages : messages[m].room = self.id
                                         /\ messages[m].user = poster}
        deleted == {m \in rows : messages[m].data # None}
        expired == {f \in DOMAIN files : /\ files[f].room = self.id
                                         /\ files[f].uploader = poster}
    IN
    /\ perm_cache' = c2
    /\ IF fail
       THEN /\ last' = Call("delete_all_posts", "BadPermission")
            /\ UNCHANGED <<messages, rooms, files>>
       ELSE /\ \E q \in Orders(rows) :
                 LET t == DeleteEach(Db, q) IN
                 /\ messages' = t.messages
                 /\ rooms' = [rooms EXCEPT !.message_sequence = t.message_sequence]
            /\ files' = [f \in DOMAIN files |->
                           IF f \in expired THEN [files[f] EXCEPT !.expiry = Some(0)]
                           ELSE files[f]]
            /\ last' = Return("delete_all_posts",
                              <<Cardinality(deleted), Cardinality(expired)>>)

delete_all_posts(poster, deleter) ==
    LET not_moderator == poster # deleter /\ ~check_moderator(perm_cache, deleter)
        c1 == IF poster # deleter THEN CacheFill(perm_cache, deleter) ELSE perm_cache
        c2 == IF not_moderator THEN c1 ELSE CacheFill(c1, poster)
        fail == \/ not_moderator
                \/ check_admin(c2, poster) /\ ~check_admin(c2, deleter)
        rows == {m \in DOMAIN messages : messages[m].room = self.id
                                         /\ messages[m].user = poster}
        deleted == {m \in rows : messages[m].data # None}
        expired == {f \in DOMAIN files : /\ files[f].room = self.id
                                         /\ files[f].uploader = poster
                                         /\ Some(f) # OmitId(poster)}
    IN
    /\ perm_cache' = c2
    /\ IF fail
       THEN /\ last' = Call("delete_all_posts", "BadPermission")
            /\ UNCHANGED <<messages, rooms, files>>
       ELSE /\ \E q \in Orders(rows) :
                 LET t == DeleteEach(Db, q) IN
                 /\ messages' = t.messages
                 /\ rooms' = [rooms EXCEPT !.message_sequence = t.message_sequence]
            /\ files' = [f \in DOMAIN files |->
                           IF f \in expired THEN [files[f] EXCEPT !.expiry = Some(0)]
                           ELSE files[f]]
            /\ last' = Return("delete_all_posts",
                              <<Cardinality(deleted), Cardinality(expired)>>)

DeleteAllPosts(poster, deleter) ==
    /\ delete_all_posts(poster, deleter)
    /\ UNCHANGED <<now, settings, overrides, user_ban_futures, user_permission_futures,
                   disk, self>>

\* ---------------------------------------------------------- Room.upload_file
\* INSERT INTO files: `uploaded` is the time of the insert, `message` is NULL
FileRow(room, uploader, size, expiry) ==
    [room |-> room, uploader |-> uploader, size |-> size, uploaded |-> now,
     expiry |-> expiry, message |-> None]

\* The primary key of the next files row
NextFileId ==
    IF DOMAIN files = {} THEN 1
    ELSE (CHOOSE f \in DOMAIN files : \A g \in DOMAIN files : g <= f) + 1

\* The steps of upload_file inside its try block, each of which may raise
UploadSteps == {"insert", "open", "write", "update", "commit"}

\* `raise` in the except block: the error of the step that failed
Reraise(step) == [op |-> "upload_file", res |-> "Exception", ret |-> Some(step)]

\* The disk when `step` raises: open(file_path, 'wb') has created the file
\* once the write is reached
DiskWhenRaised(step, file_id) ==
    IF step \in {"write", "update", "commit"} THEN disk \cup {file_id} ELSE disk

\* The except block: file_path is set once the INSERT has returned the id,
\* and os.unlink, taken to succeed on a file that is there, removes it
Unlinked(step, file_id) ==
    IF step # "insert" THEN DiskWhenRaised(step, file_id) \ {file_id}
    ELSE DiskWhenRaised(step, file_id)

\* upload_file whose except block raises again without os.unlink
upload_file_without_unlink(file_content, uploader, lifetime) ==
    LET c1 == CacheFill(perm_cache, uploader)
        expiry == IF lifetime = None THEN None ELSE Some(now + lifetime[1])
        file_id == NextFileId
    IN
    /\ perm_cache' = c1
    /\ IF ~check_upload(c1, uploader)
       THEN /\ last' = Call("upload_file", "BadPermission")
            /\ UNCHANGED <<files, disk>>
       ELSE \/ /\ files' = files @@ (file_id :> FileRow(self.id, uploader, Len(file_content), expiry))
               /\ disk' = disk \cup {file_id}
               /\ last' = Return("upload_file", file_id)
            \/ \E step \in UploadSteps :
                  /\ files' = files
                  /\ disk' = DiskWhenRaised(step, file_id)
                  /\ last' = Reraise(step)

\* The upload either goes through (row inserted, file written, row updated
\* with its path, transaction committed) or one of these steps raises: then
\* the transaction rolls the row back, the except block unlinks the file and
\* the error is raised again.
upload_file(file_content, uploader, lifetime) ==
    LET c1 == CacheFill(perm_cache, uploader)
        expiry == IF lifetime = None THEN None ELSE Some(now + lifetime[1])
        file_id == NextFileId
    IN
    /\ perm_cache' = c1
    /\ IF ~check_upload(c1, uploader)
       THEN /\ last' = Call("upload_file", "BadPermission")
            /\ UNCHANGED <<files, disk>>
       ELSE \/ /\ files' = files @@ (file_id :> FileRow(self.id, uploader, Len(file_content), expiry))
               /\ disk' = disk \cup {file_id}
               /\ last' = Return("upload_file", file_id)
            \/ \E step \in UploadSteps :
                  /\ files' = files
                  /\ disk' = Unlinked(step, file_id)
                  /\ last' = Reraise(step)

UploadFile(file_content, uploader, lifetime) ==
    /\ upload_file(file_content, uploader, lifetime)
    /\ UNCHANGED <<now, settings, rooms, overrides, user_ban_futures,
                   user_permission_futures, messages, self>>

\* ------------------------------------------------------------ Room.get_file
\* The file of the room with that id, unless its expiry is not later than
\* now: <<id>>, or None.  No row of file_id_hacks is taken to exist.
get_file(file_id) ==
    IF file_id \notin DOMAIN files \/ files[file_id].room # self.id THEN None
    ELSE IF files[file_id].expiry = None \/ files[file_id].expiry[1] > now
    THEN Some(file_id)
    ELSE None

GetFile(file_id) ==
    /\ last' = Return("get_file", get_file(file_id))
    /\ UNCHANGED <<now, settings, rooms, overrides, user_ban_futures,
                   user_permission_futures, content, self, perm_cache>>

\* ------------------------------------------------------------ Room.get_mods
\* The visible_mod column of the user_permissions view: that of the override
\* for a moderator or admin of the room, that of the users row for a global one
ViewVisibleMod(us, ov, u) ==
    LET o == OverrideOf(ov, u) IN
    IF o.moderator \/ o.admin THEN o.visible_mod
    ELSE (us[u].moderator \/ us[u].admin) /\ us[u].visible_mod

\* The ids of S in ascending order (a session id is modelled by the user id)
RECURSIVE Sorted(_)
Sorted(S) ==
    IF S = {} THEN <<>>
    ELSE LET first == CHOOSE x \in S : \A y \in S : x <= y
         IN  <<first>> \o Sorted(S \ {first})

\* get_mods that returns the hidden lists to every caller
get_mods_disclosing(user) ==
    LET rows == {u \in DOMAIN users : UserPermissions(u)[6]}
        visible(u) == ViewVisibleMod(users, overrides, u)
        admin(u) == UserPermissions(u)[7]
        m == Sorted({u \in rows : visible(u) /\ ~admin(u)})
        a == Sorted({u \in rows : visible(u) /\ admin(u)})
        hm == Sorted({u \in rows : ~visible(u) /\ ~admin(u)})
        ha == Sorted({u \in rows : ~visible(u) /\ admin(u)})
    IN  <<m, a, hm, ha>>

\* Room.get_mods: (public mods, public admins, hidden mods, hidden admins) of
\* the rows of the view WHERE moderator, the hidden ones only for a user who
\* is in one of the four lists
get_mods(user) ==
    LET rows == {u \in DOMAIN users : UserPermissions(u)[6]}
        visible(u) == ViewVisibleMod(users, overrides, u)
        admin(u) == UserPermissions(u)[7]
        m == Sorted({u \in rows : visible(u) /\ ~admin(u)})
        a == Sorted({u \in rows : visible(u) /\ admin(u)})
        hm == Sorted({u \in rows : ~visible(u) /\ ~admin(u)})
        ha == Sorted({u \in rows : ~visible(u) /\ admin(u)})
        listed == \E modlist \in {m, hm, a, ha} : \E k \in DOMAIN modlist : modlist[k] = user
    IN  IF user = Anon \/ ~listed THEN <<m, a, <<>>, <<>>>> ELSE <<m, a, hm, ha>>

GetMods(user) ==
    /\ last' = Return("get_mods", get_mods(user))
    /\ UNCHANGED <<now, settings, rooms, overrides, user_ban_futures,
                   user_permission_futures, content, self, perm_cache>>

\* ----------------------------------------------------- Room.get_messages_for
\* The rows D as a sequence, by ascending column (and ascending id within a
\* value of the column): the k-th is the one that has k - 1 before it
OrderBy(D, column) ==
    [k \in 1..Cardinality(D) |->
        CHOOSE x \in D :
           Cardinality({y \in D : \/ y[column] < x[column]
                                  \/ (y[column] = x[column] /\ y.id < x.id)}) = k - 1]

Reverse(q) == [k \in 1..Len(q) |-> q[Len(q) + 1 - k]]

\* LIMIT :limit
Limit(q, limit) == SubSeq(q, 1, IF limit < Len(q) THEN limit ELSE Len(q))

\* The whisper clause of the query that keeps every row
whisper_clause_open(mod, user, row) == TRUE

\* The whisper clause of the query, for a moderator, another user and a
\* caller without user
whisper_clause(mod, user, row) ==
    IF mod
    THEN row.whisper_mods \/ row.whisper = Some(user) \/ row.user = user
            \/ row.whisper = None
    ELSE IF user # Anon
    THEN row.whisper = Some(user) \/ (row.whisper = None /\ ~row.whisper_mods)
    ELSE row.whisper = None /\ ~row.whisper_mods

\* The query modes: exactly one of sequence=, after=, before=, recent=, single=
\* makes a mode <<name, value>>; anything else is <<"none", 0>>
QueryNames == {"sequence", "after", "before", "recent", "single"}

\* The WHERE clause that leaves `AND NOT filtered` out
Selected_with_filtered(mod, user, mode) ==
    {m \in DOMAIN messages :
        /\ messages[m].room = self.id
        /\ mode[1] # "sequence" => messages[m].data # None
        /\ CASE mode[1] = "sequence" -> messages[m].seqno > mode[2]
             [] mode[1] = "after" -> m > mode[2]
             [] mode[1] = "before" -> m < mode[2]
             [] mode[1] = "single" -> m = mode[2]
             [] OTHER -> TRUE
        /\ whisper_clause(mod, user, messages[m])}

\* The WHERE clause with `AND data IS NOT NULL` in every mode
Selected_live_only(mod, user, mode) ==
    {m \in DOMAIN messages :
        /\ messages[m].room = self.id
        /\ ~messages[m].filtered
        /\ messages[m].data # None
        /\ CASE mode[1] = "sequence" -> messages[m].seqno > mode[2]
             [] mode[1] = "after" -> m > mode[2]
             [] mode[1] = "before" -> m < mode[2]
             [] mode[1] = "single" -> m = mode[2]
             [] OTHER -> TRUE
        /\ whisper_clause(mod, user, messages[m])}

\* The WHERE clause of the SELECT on message_details
Selected(mod, user, mode) ==
    {m \in DOMAIN messages :
        /\ messages[m].room = self.id
        /\ ~messages[m].filtered
        /\ mode[1] # "sequence" => messages[m].data # None
        /\ CASE mode[1] = "sequence" -> messages[m].seqno > mode[2]
             [] mode[1] = "after" -> m > mode[2]
             [] mode[1] = "before" -> m < mode[2]
             [] mode[1] = "single" -> m = mode[2]
             [] OTHER -> TRUE
        /\ whisper_clause(mod, user, messages[m])}

\* ORDER BY ... LIMIT :limit (none of them for single=)
Ordered(D, mode, limit) ==
    CASE mode[1] = "single" -> OrderBy(D, "id")
      [] mode[1] = "sequence" -> Limit(OrderBy(D, "seqno"), limit)
      [] mode[1] = "after" -> Limit(OrderBy(D, "id"), limit)
      [] OTHER -> Limit(Reverse(OrderBy(D, "id")), limit)

\* The dict made of a row; a key that the dict does not have is None here
MessageDict(m) ==
    LET row == messages[m] IN
    [id |-> m, session_id |-> row.user, posted |-> row.posted, seqno |-> row.seqno,
     data |-> IF row.data = None THEN None
              ELSE Some(add_session_message_padding(row.data[1], row.data_size[1])),
     signature |-> IF row.data = None THEN None ELSE row.signature,
     edited |-> row.edited,
     whisper |-> row.whisper # None \/ row.whisper_mods,
     whisper_mods |-> row.whisper_mods,
     whisper_to |-> row.whisper]

\* limit: int = 256
DefaultLimit == 256

\* The list that get_messages_for returns in a valid mode
get_messages_for(cache, user, mode, limit) ==
    Ordered({MessageDict(m) : m \in Selected(check_moderator(cache, user), user, mode)},
            mode, limit)

GetMessagesFor(user, mode, limit) ==
    /\ perm_cache' = CacheFill(perm_cache, user)
    /\ last' = IF mode[1] \in QueryNames
               THEN Return("get_messages_for", get_messages_for(perm_cache, user, mode, limit))
               ELSE Call("get_messages_for", "RuntimeError")
    /\ UNCHANGED <<now, settings, rooms, overrides, user_ban_futures,
                   user_permission_futures, content, self>>

\* ------------------------------- add_post and edit_post of another request
\* Another request handler runs add_post or edit_post on a Room instance of
\* its own, loaded for the request: its cache is empty when the call begins.
\* The call is two steps: the checks that precede `with db.transaction():`,
\* then the transaction. `inflight` holds the locals of the call between them.
Checked(op, user, msg_id, data, sig, filtered, cache) ==
    [op |-> op, user |-> user, msg_id |-> msg_id, data |-> data, sig |-> sig,
     filtered |-> filtered, cache |-> cache]

\* add_post up to the transaction: check_write, the test of data and sig,
\* should_filter
BeginAddPost(user, data, sig) ==
    LET c1 == CacheFill(Empty, user)
        filtered == should_filter(c1, user, data)
    IN
    /\ inflight = <<>>
    /\ IF ~check_write(c1, user)
       THEN last' = Call("add_post", "BadPermission") /\ inflight' = inflight
       ELSE IF Len(sig) # SignatureSize
       THEN last' = Call("add_post", "InvalidData") /\ inflight' = inflight
       ELSE IF filtered = "PostRejected"
       THEN last' = Call("add_post", "PostRejected") /\ inflight' = inflight
       ELSE /\ inflight' = <<Checked("add_post", user, 0, data, sig, filtered, c1)>>
            /\ last' = last
    /\ UNCHANGED <<now, users, config, client, rooms, overrides, user_ban_futures,
                   user_permission_futures, content, self, perm_cache>>

\* The transaction of add_post: the rate limit, the INSERT, the SELECT of the
\* new row
CommitAddPost ==
    LET r == inflight[1]
        msg_id == Len(messages) + 1
        row == MessageRow(r.user, remove_session_message_padding(r.data), Len(r.data),
                          r.sig, r.filtered = "True", None, FALSE)
        t == InsertMessage(Db, row)
        msg == [id |-> msg_id, session_id |-> r.user, posted |-> t.messages[msg_id].posted,
                seqno |-> t.messages[msg_id].seqno, data |-> r.data, signature |-> r.sig,
                whisper |-> FALSE, whisper_mods |-> FALSE, whisper_to |-> None]
    IN
    /\ inflight # <<>>
    /\ r.op = "add_post"
    /\ inflight' = <<>>
    /\ IF /\ rate_limit_size # 0
          /\ ~check_admin(r.cache, r.user)
          /\ Cardinality(RecentPosts(r.user)) >= rate_limit_size
       THEN /\ last' = Call("add_post", "PostRateLimited")
            /\ UNCHANGED <<messages, rooms>>
       ELSE /\ messages' = t.messages
            /\ rooms' = [rooms EXCEPT !.message_sequence = t.message_sequence]
            /\ last' = Return("add_post", msg)
    /\ UNCHANGED <<now, users, config, client, overrides, user_ban_futures,
                   user_permission_futures, files, disk, self, perm_cache>>

\* The statements of add_post's transaction one by one, for a storage whose
\* transactions see what others have committed between their statements.
\* First the SELECT COUNT(*) of the rate limit; the request keeps the count
CountRecentPosts ==
    LET r == inflight[1]
        limited == rate_limit_size # 0 /\ ~check_admin(r.cache, r.user)
        recent_count == IF limited THEN Cardinality(RecentPosts(r.user)) ELSE 0
    IN
    /\ inflight # <<>>
    /\ r.op = "add_post"
    /\ "recent_count" \notin DOMAIN r
    /\ IF recent_count >= rate_limit_size
       THEN last' = Call("add_post", "PostRateLimited") /\ inflight' = <<>>
       ELSE last' = last /\ inflight' = <<r @@ [recent_count |-> recent_count]>>
    /\ UNCHANGED <<now, users, config, client, rooms, overrides, user_ban_futures,
                   user_permission_futures, content, self, perm_cache>>

\* Then the INSERT and the SELECT of the new row, and the commit
InsertCountedPost ==
    LET r == inflight[1]
        msg_id == Len(messages) + 1
        row == MessageRow(r.user, remove_session_message_padding(r.data), Len(r.data),
                          r.sig, r.filtered = "True", None, FALSE)
        t == InsertMessage(Db, row)
        msg == [id |-> msg_id, session_id |-> r.user, posted |-> t.messages[msg_id].posted,
                seqno |-> t.messages[msg_id].seqno, data |-> r.data, signature |-> r.sig,
                whisper |-> FALSE, whisper_mods |-> FALSE, whisper_to |-> None]
    IN
    /\ inflight # <<>>
    /\ r.op = "add_post"
    /\ "recent_count" \in DOMAIN r
    /\ inflight' = <<>>
    /\ messages' = t.messages
    /\ rooms' = [rooms EXCEPT !.message_sequence = t.message_sequence]
    /\ last' = Return("add_post", msg)
    /\ UNCHANGED <<now, users, config, client, overrides, user_ban_futures,
                   user_permission_futures, files, disk, self, perm_cache>>

\* edit_post up to the transaction: check_write, the test of data and sig,
\* should_filter
BeginEditPost(user, msg_id, data, sig) ==
    LET c1 == CacheFill(Empty, user)
        filtered == should_filter(c1, user, data)
    IN
    /\ inflight = <<>>
    /\ IF ~check_write(c1, user)
       THEN last' = Call("edit_post", "BadPermission") /\ inflight' = inflight
       ELSE IF Len(sig) # SignatureSize
       THEN last' = Call("edit_post", "InvalidData") /\ inflight' = inflight
       ELSE IF filtered = "PostRejected"
       THEN last' = Call("edit_post", "PostRejected") /\ inflight' = inflight
       ELSE /\ inflight' = <<Checked("edit_post", user, msg_id, data, sig, filtered, c1)>>
            /\ last' = last
    /\ UNCHANGED <<now, users, config, client, rooms, overrides, user_ban_futures,
                   user_permission_futures, content, self, perm_cache>>

\* The transaction of edit_post: the SELECT of the author, the UPDATE
CommitEditPost ==
    LET r == inflight[1]
        found == /\ r.msg_id \in DOMAIN messages
                 /\ messages[r.msg_id].room = self.id
                 /\ messages[r.msg_id].data # None
        t == UpdateMessage(Db, r.msg_id, remove_session_message_padding(r.data),
                           Len(r.data), r.sig)
    IN
    /\ inflight # <<>>
    /\ r.op = "edit_post"
    /\ inflight' = <<>>
    /\ IF ~found
       THEN /\ last' = Call("edit_post", "NoSuchPost")
            /\ UNCHANGED <<messages, rooms>>
       ELSE IF messages[r.msg_id].user # r.user
       THEN /\ last' = Call("edit_post", "BadPermission")
            /\ UNCHANGED <<messages, rooms>>
       ELSE IF r.filtered = "True"
       THEN /\ last' = Call("edit_post", "ok")
            /\ UNCHANGED <<messages, rooms>>
       ELSE /\ messages' = t.messages
            /\ rooms' = [rooms EXCEPT !.message_sequence = t.message_sequence]
            /\ last' = Call("edit_post", "ok")
    /\ UNCHANGED <<now, users, config, client, overrides, user_ban_futures,
                   user_permission_futures, files, disk, self, perm_cache>>

\* ------------------------------------------------------- the polling client
\* The client asks for the messages after the largest seqno it has received,
\* keeps the newest dict of each message id and moves to the largest seqno
\* of the answer
Poll ==
    LET got == get_messages_for(perm_cache, client.user,
                                <<"sequence", client.cursor>>, PollLimit)
        ids == {got[k].id : k \in DOMAIN got}
        dict(m) == got[CHOOSE k \in DOMAIN got : got[k].id = m]
        top == IF got = <<>> THEN client.cursor ELSE got[Len(got)].seqno
    IN
    /\ client' = [client EXCEPT
                    !.cursor = top,
                    !.view = [m \in DOMAIN client.view \cup ids |->
                                IF m \in ids THEN dict(m) ELSE client.view[m]]]
    /\ perm_cache' = CacheFill(perm_cache, client.user)
    /\ last' = Return("get_messages_for", got)
    /\ UNCHANGED <<now, users, config, inflight, rooms, overrides, user_ban_futures,
                   user_permission_futures, content, self>>

\* --------------------------------------------------------- Room.image (setter)
\* File.set_expiry: no expiry with forever=True, the default lifetime otherwise
set_expiry(fs, f, forever) ==
    IF f \notin DOMAIN fs THEN fs
    ELSE [fs EXCEPT ![f].expiry =
            IF forever THEN None ELSE Some(now + config.UPLOAD_DEFAULT_EXPIRY)]

\* room.image = file, `file` being a file id
image_setter(file) ==
    IF file \notin DOMAIN files \/ files[file].room # self.id
    THEN /\ last' = Call("image", "NoSuchFile")
         /\ UNCHANGED <<files, rooms, self>>
    ELSE LET f1 == set_expiry(files, file, TRUE)
             f2 == IF self.image # None THEN set_expiry(f1, self.image[1], FALSE) ELSE f1
         IN  /\ files' = f2
             /\ rooms' = [rooms EXCEPT !.image = Some(file)]
             /\ self' = Loaded(rooms')
             /\ last' = Call("image", "ok")

SetImage(file) ==
    /\ image_setter(file)
    /\ UNCHANGED <<now, settings, overrides, user_ban_futures, user_permission_futures,
                   messages, disk, perm_cache>>

\* Time passes by d seconds, up to one tick past the rate limit's window
Elapse(d) ==
    /\ now + d <= rate_limit_interval + MaxTime
    /\ now' = now + d
    /\ UNCHANGED <<settings, rooms, overrides, user_ban_futures, user_permission_futures,
                   content, self, perm_cache, last>>

\* ------------------------------------------------------------ initial states
\* rooms row as inserted by Room.create, with the given defaults
RoomRow(read, accessible, write, upload) ==
    [id |-> "room", read |-> read, accessible |-> accessible, write |-> write,
     upload |-> upload, message_sequence |-> 0, image |-> <<>>]

\* User.set_moderator(admin=True): a global admin is a global moderator too
GlobalAdmin == [banned |-> FALSE, moderator |-> TRUE, admin |-> TRUE, visible_mod |-> FALSE]

\* How a room gets its first admin: user 1 is a global admin, or user 1 was
\* made admin of the room from the command line
Bootstraps ==
    { [users |-> [u \in Users |-> IF u = 1 THEN GlobalAdmin ELSE PlainUser],
       overrides |-> Empty],
      [users |-> [u \in Users |-> PlainUser],
       overrides |-> (1 :> SetModeratorRow(NewOverride, "True", TRUE))] }

\* sogs.config with the profanity filter off and a default upload lifetime
NoFilter ==
    [PROFANITY_FILTER |-> FALSE, PROFANITY_SILENT |-> FALSE, UPLOAD_DEFAULT_EXPIRY |-> 1]

InitCommon ==
    /\ now = 0
    /\ user_ban_futures = {}
    /\ user_permission_futures = {}
    /\ messages = Empty
    /\ files = Empty
    /\ disk = {}
    /\ self = Loaded(rooms)
    /\ perm_cache = Empty
    /\ last = Call("Room", "ok")
    /\ Quiet

\* ------------------------------------------ moderation, time and the timer
TimeoutValues == {-1, 0, 1}
Timeouts == {NoTimeout} \cup {<<t>> : t \in TimeoutValues}
Grants == {"True", "False"}

\* Spec: bans, unbans and moderator grants on one Room instance, while time
\* passes and the cleanup timer runs
Init ==
    /\ \E b \in Bootstraps : users = b.users /\ overrides = b.overrides
    /\ rooms = RoomRow(TRUE, TRUE, TRUE, TRUE)
    /\ config = NoFilter
    /\ InitCommon

Next ==
    \/ \E u, by \in Users, admin \in Grants : SetModerator(u, by, admin, TRUE)
    \/ \E u, by \in Users, t \in Timeouts : BanUser(u, by, t)
    \/ \E u, by \in Users : UnbanUser(u, by)
    \/ Sweeper
    \/ Tick

Spec == Init /\ [][Next]_vars

\* SpecRank: the five moderation calls at one instant
RankPerms == {("write" :> "False")}

NextRank ==
    \/ \E u, by \in Users, admin \in Grants : SetModerator(u, by, admin, TRUE)
    \/ \E u, by \in Users, only \in BOOLEAN : RemoveModerator(u, by, only)
    \/ \E u, by \in Users, t \in {NoTimeout, <<1>>} : BanUser(u, by, t)
    \/ \E u, by \in Users : UnbanUser(u, by)
    \/ \E u, by \in Users, perms \in RankPerms : SetPermissions(u, by, perms)

SpecRank == Init /\ [][NextRank]_vars

\* SpecBan: bans and unbans among users whose rank is granted and banned away
NextBan ==
    \/ \E u, by \in Users, admin \in Grants : SetModerator(u, by, admin, TRUE)
    \/ \E u, by \in Users, t \in {NoTimeout, <<1>>} : BanUser(u, by, t)
    \/ \E u, by \in Users : UnbanUser(u, by)

SpecBan == Init /\ [][NextBan]_vars

\* SpecInstance: every call that changes permissions, made through one Room
\* instance with no other writer
InstancePerms == {("write" :> "False"), ("write" :> "None")}

InitInstance ==
    /\ users = [u \in Users |-> PlainUser]
    /\ overrides = (1 :> SetModeratorRow(NewOverride, "True", TRUE))
    /\ rooms = RoomRow(TRUE, TRUE, TRUE, TRUE)
    /\ config = NoFilter
    /\ InitCommon

NextInstance ==
    \/ \E u, by \in Users, admin \in Grants : SetModerator(u, by, admin, TRUE)
    \/ \E u, by \in Users, only \in BOOLEAN : RemoveModerator(u, by, only)
    \/ \E u, by \in Users : BanUser(u, by, NoTimeout)
    \/ \E u, by \in Users : UnbanUser(u, by)
    \/ \E u, by \in Users, perms \in InstancePerms : SetPermissions(u, by, perms)
    \/ \E b \in BOOLEAN : SetDefaultRead(b)
    \/ \E b \in BOOLEAN : SetDefaultAccessible(b)
    \/ \E b \in BOOLEAN : SetDefaultWrite(b)
    \/ \E b \in BOOLEAN : SetDefaultUpload(b)

SpecInstance == InitInstance /\ [][NextInstance]_vars

\* SpecCheck: check_permission on every override row, room default and
\* global flag of user 1
OverrideRows ==
    {o \in [read : Tri, accessible : Tri, write : Tri, upload : Tri,
            banned : BOOLEAN, moderator : BOOLEAN, admin : BOOLEAN, visible_mod : {TRUE}] :
        o.admin => o.moderator}

GlobalFlags ==
    {PlainUser, GlobalAdmin, [PlainUser EXCEPT !.banned = TRUE],
     [PlainUser EXCEPT !.moderator = TRUE]}

InitCheck ==
    /\ \E g \in GlobalFlags : users = [u \in Users |-> IF u = 1 THEN g ELSE PlainUser]
    /\ \E o \in OverrideRows : overrides = (1 :> o)
    /\ \E r, a, w, up \in BOOLEAN : rooms = RoomRow(r, a, w, up)
    /\ config = NoFilter
    /\ InitCommon

NextCheck ==
    \E c \in DOMAIN Shortcuts : CheckPermission(1, c)

SpecCheck == InitCheck /\ [][NextCheck]_vars

\* SpecMsg: posts, edits and deletions in a room whose default_write is
\* off, with write permission granted and revoked through the same instance
GoodSig == [i \in 1..SignatureSize |-> 0]
\* (data, sig) of a post: a well-formed one, one without data, one with a
\* short signature
PostArgs == {<<Some(<<1>>), Some(GoodSig)>>, <<None, Some(GoodSig)>>,
             <<Some(<<1>>), Some(<<0>>)>>}
\* (data, sig) of an edit: a well-formed one and one without a signature
Edits == {<<Some(<<2>>), Some(GoodSig)>>, <<Some(<<2>>), None>>}
MessageIds == {1, 2}
IdLists == {<<>>, <<1>>, <<2>>, <<1, 2>>, <<3>>}
WritePerms == {("write" :> "True"), ("write" :> "False")}

InitMsg ==
    /\ users = [u \in Users |-> PlainUser]
    /\ overrides = (1 :> SetModeratorRow(NewOverride, "True", TRUE))
    /\ rooms = RoomRow(TRUE, TRUE, FALSE, TRUE)
    /\ config = NoFilter
    /\ InitCommon

MsgBound == rooms.message_sequence < MaxSeq

NextMsg ==
    \/ \E u \in Users, a \in PostArgs :
          MsgBound /\ AddPost(u, a[1], a[2], None, FALSE, <<>>)
    \/ \E u \in Users, m \in MessageIds, e \in Edits :
          MsgBound /\ EditPost(u, m, e[1], e[2], <<>>)
    \/ \E ids \in IdLists, u \in Users : MsgBound /\ DeletePosts(ids, u)
    \/ \E poster, deleter \in Users : MsgBound /\ DeleteAllPosts(poster, deleter)
    \/ \E u, by \in Users, perms \in WritePerms : SetPermissions(u, by, perms)

SpecMsg == InitMsg /\ [][NextMsg]_vars

\* SpecRate: well-formed posts by the room's admin and by a plain user in a
\* room that everyone may write to, at the start of the window, at its last
\* second and one second after it
MaxPosts == rate_limit_size + 1
RateSteps == {rate_limit_interval, rate_limit_interval + 1}

InitRate ==
    /\ users = [u \in Users |-> PlainUser]
    /\ overrides = (1 :> SetModeratorRow(NewOverride, "True", TRUE))
    /\ rooms = RoomRow(TRUE, TRUE, TRUE, TRUE)
    /\ config = NoFilter
    /\ InitCommon

NextRate ==
    \/ \E u \in Users :
          /\ Cardinality({m \in DOMAIN messages : messages[m].user = u}) < MaxPosts
          /\ AddPost(u, Some(<<1>>), Some(GoodSig), None, FALSE, <<>>)
    \/ \E d \in RateSteps : Elapse(d)

SpecRate == InitRate /\ [][NextRate]_vars

\* SpecDel: the room's admin (user 1) and a user without override (user 2)
\* post up to MaxStored messages and delete them by lists of ids, some of
\* one batch and some of two: BatchSize times one id, then another id
LongList(a, b) == [k \in 1..(BatchSize + 1) |-> IF k <= BatchSize THEN a ELSE b]
DelIds == 1..MaxStored
DelLists == {<<1>>, <<2>>, <<1, 2>>}
            \cup {LongList(a, b) : a, b \in DelIds}

NextDel ==
    \/ \E u \in Users :
          /\ Len(messages) < MaxStored
          /\ AddPost(u, Some(<<1>>), Some(GoodSig), None, FALSE, <<>>)
    \/ \E ids \in DelLists, u \in Users : DeletePosts(ids, u)

SpecDel == InitRate /\ [][NextDel]_vars

\* SpecAll: users of every rank post, upload, set the room image and delete
\* all the posts of a user.  The tables start with a message and a file that
\* user 1 left in another room.
Admin == SetModeratorRow(NewOverride, "True", TRUE)
Moderator == SetModeratorRow(NewOverride, "False", TRUE)
Staffs == {Empty, (1 :> Moderator), (1 :> Admin) @@ (2 :> Moderator),
           (1 :> Admin) @@ (2 :> Admin)}
ElsewhereMessage ==
    [room |-> "other", user |-> 1, data |-> Some(<<1>>), data_size |-> Some(1),
     signature |-> Some(GoodSig), seqno |-> 1, posted |-> 0, edited |-> None,
     filtered |-> FALSE, whisper |-> None, whisper_mods |-> FALSE]
ElsewhereFile ==
    [room |-> "other", uploader |-> 1, size |-> 1, uploaded |-> 0,
     expiry |-> Some(1), message |-> None]
FileIds == 1..MaxStored

InitElsewhere ==
    /\ users = [u \in Users |-> PlainUser]
    /\ rooms = RoomRow(TRUE, TRUE, TRUE, TRUE)
    /\ config = NoFilter
    /\ now = 0
    /\ user_ban_futures = {}
    /\ user_permission_futures = {}
    /\ messages = <<ElsewhereMessage>>
    /\ files = (1 :> ElsewhereFile)
    /\ disk = {1}
    /\ self = Loaded(rooms)
    /\ perm_cache = Empty
    /\ last = Call("Room", "ok")
    /\ Quiet

InitAll == overrides \in Staffs /\ InitElsewhere

NextAll ==
    \/ \E u \in Users :
          /\ Len(messages) < MaxStored
          /\ AddPost(u, Some(<<1>>), Some(GoodSig), None, FALSE, <<>>)
    \/ \E u \in Users :
          /\ Cardinality(DOMAIN files) < MaxStored
          /\ UploadFile(<<1>>, u, Some(config.UPLOAD_DEFAULT_EXPIRY))
    \/ \E f \in FileIds : SetImage(f)
    \/ \E poster, deleter \in Users : DeleteAllPosts(poster, deleter)

SpecAll == InitAll /\ [][NextAll]_vars

\* SpecFiles: the room's admin (user 1) and a user without override (user 2)
\* post, upload, set the room image and delete all the posts of a user, with
\* up to MaxStored + 1 messages and files in the room
InitFiles == overrides = (1 :> Admin) /\ InitElsewhere

\* The rows of messages and files that are not those of InitElsewhere
RoomRows == Len(messages) - 1 + Cardinality(DOMAIN files) - 1

NextFiles ==
    \/ \E u \in Users :
          /\ RoomRows <= MaxStored
          /\ AddPost(u, Some(<<1>>), Some(GoodSig), None, FALSE, <<>>)
    \/ \E u \in Users :
          /\ RoomRows <= MaxStored /\ Cardinality(DOMAIN files) <= MaxStored
          /\ UploadFile(<<1>>, u, Some(config.UPLOAD_DEFAULT_EXPIRY))
    \/ \E f \in 1..(MaxStored + 1) : SetImage(f)
    \/ \E poster, deleter \in Users : DeleteAllPosts(poster, deleter)

SpecFiles == InitFiles /\ [][NextFiles]_vars

\* SpecOwn: the users upload as the upload route does, with a lifetime of one
\* hour, post and edit with a file id, and delete all the posts of a user,
\* while time passes
RouteLifetime == 3600

NextOwn ==
    \/ \E u \in Users :
          /\ RoomRows < MaxStored
          /\ UploadFile(<<1>>, u, Some(RouteLifetime))
    \/ \E u \in Users, f \in 1..MaxStored :
          /\ RoomRows < MaxStored /\ MsgBound
          /\ AddPost(u, Some(<<1>>), Some(GoodSig), None, FALSE, <<f>>)
    \/ \E u \in Users, m \in 1..MaxStored, f \in 1..MaxStored :
          /\ MsgBound
          /\ EditPost(u, m, Some(<<2>>), Some(GoodSig), <<f>>)
    \/ \E poster, deleter \in Users : MsgBound /\ DeleteAllPosts(poster, deleter)
    \/ Tick

SpecOwn == InitFiles /\ [][NextOwn]_vars

\* SpecFut: changes of permissions are scheduled, one at a time per user, for
\* the room's admin (user 1) and for user 2, who has no override or one that
\* bans them and sets read and accessible; apply_permission_updates runs at
\* a time that does not move
FutureFields == {<<NULL, "FALSE", NULL>>, <<"TRUE", NULL, NULL>>,
                 <<"FALSE", "TRUE", "TRUE">>, <<NULL, NULL, NULL>>}
BannedReader == [NewOverride EXCEPT !.banned = TRUE, !.read = "FALSE", !.accessible = "TRUE"]

InitFut ==
    /\ users = [u \in Users |-> PlainUser]
    /\ overrides \in {(1 :> Admin), (1 :> Admin) @@ (2 :> BannedReader)}
    /\ rooms = RoomRow(TRUE, TRUE, TRUE, TRUE)
    /\ config = NoFilter
    /\ now \in Times
    /\ user_ban_futures = {}
    /\ user_permission_futures = {}
    /\ messages = Empty
    /\ files = Empty
    /\ disk = {}
    /\ self = Loaded(rooms)
    /\ perm_cache = Empty
    /\ last = Call("Room", "ok")
    /\ Quiet

NextFut ==
    \/ \E u \in Users, at \in Times, p \in FutureFields :
          /\ \A f \in user_permission_futures : f.user # u
          /\ ScheduleFuture(u, at, p[1], p[2], p[3])
    \/ ApplyPermissionUpdates

SpecFut == InitFut /\ [][NextFut]_vars

\* SpecPad: a byte string of up to MaxLen bytes, each 0x00, 0x01 or 0x80, is
\* put through remove_session_message_padding and the result, with the
\* length of the original, through add_session_message_padding.  `last`
\* holds the original and the value returned.
Bytes == {0, 1, 128}
ByteStrings == UNION {[1..n -> Bytes] : n \in 0..MaxLen}

InitPad ==
    /\ users = [u \in Users |-> PlainUser]
    /\ overrides = Empty
    /\ rooms = RoomRow(TRUE, TRUE, TRUE, TRUE)
    /\ config = NoFilter
    /\ now = 0
    /\ user_ban_futures = {}
    /\ user_permission_futures = {}
    /\ messages = Empty
    /\ files = Empty
    /\ disk = {}
    /\ self = Loaded(rooms)
    /\ perm_cache = Empty
    /\ \E d \in ByteStrings : last = Return("bytes", d)
    /\ Quiet

RemovePadding ==
    /\ last.op = "bytes"
    /\ last' = Return("remove_session_message_padding",
                      <<last.ret[1], remove_session_message_padding(last.ret[1])>>)
    /\ UNCHANGED <<now, settings, rooms, overrides, user_ban_futures,
                   user_permission_futures, content, self, perm_cache>>

AddPadding ==
    /\ last.op = "remove_session_message_padding"
    /\ last' = Return("add_session_message_padding",
                      <<last.ret[1][1],
                        add_session_message_padding(last.ret[1][2], Len(last.ret[1][1]))>>)
    /\ UNCHANGED <<now, settings, rooms, overrides, user_ban_futures,
                   user_permission_futures, content, self, perm_cache>>

NextPad == RemovePadding \/ AddPadding

SpecPad == InitPad /\ [][NextPad]_vars

\* SpecPost: posts and whispers, well-formed or not, clean or profane, by the
\* room's admin and by a user who is a moderator of the room or has no
\* override, under each setting of the profanity filter
RejectFilter == [NoFilter EXCEPT !.PROFANITY_FILTER = TRUE]
SilentFilter == [NoFilter EXCEPT !.PROFANITY_FILTER = TRUE, !.PROFANITY_SILENT = TRUE]
Configs == {NoFilter, RejectFilter, SilentFilter}
Profane == <<66>>
PostBodies == {<<Some(<<1>>), Some(GoodSig)>>, <<Some(Profane), Some(GoodSig)>>,
               <<Some(<<1>>), None>>}
\* No whisper, a whisper to the User object of user 1, a whisper to the
\* session id of someone who has no users row yet
Whispers == {None, <<"User", 1>>, <<"str", 3>>}

InitPost ==
    /\ users = [u \in Users |-> PlainUser]
    /\ \E ov \in {(1 :> SetModeratorRow(NewOverride, "True", TRUE)),
                   (1 :> SetModeratorRow(NewOverride, "True", TRUE))
                      @@ (2 :> SetModeratorRow(NewOverride, "False", TRUE))} :
          overrides = ov
    /\ rooms = RoomRow(TRUE, TRUE, TRUE, TRUE)
    /\ config \in Configs
    /\ InitCommon

NextPost ==
    \E u \in Users, a \in PostBodies, w \in Whispers, mods \in BOOLEAN :
        /\ Len(messages) < MaxStored
        /\ AddPost(u, a[1], a[2], w, mods, <<>>)

SpecPost == InitPost /\ [][NextPost]_vars

\* SpecFilter: under the rejecting and the silent profanity filter the room's
\* admin (user 1) and user 2, a moderator or a user without override, post
\* clean and profane messages, user 2 goes on posting profane ones up to the
\* rate limit, and anyone reads the messages in every query mode
Callers == Users \cup {Anon}
QueryModes == {<<"sequence", 0>>, <<"after", 0>>, <<"before", 3>>, <<"recent", 0>>,
               <<"single", 1>>, <<"none", 0>>}

InitFilter ==
    /\ users = [u \in Users |-> PlainUser]
    /\ overrides \in {(1 :> Admin), (1 :> Admin) @@ (2 :> Moderator)}
    /\ rooms = RoomRow(TRUE, TRUE, TRUE, TRUE)
    /\ config \in {RejectFilter, SilentFilter}
    /\ InitCommon

NextFilter ==
    \/ \E u \in Users, body \in {<<1>>, Profane} :
          /\ Len(messages) < MaxStored
          /\ AddPost(u, Some(body), Some(GoodSig), None, FALSE, <<>>)
    \/ /\ Cardinality(PostsOfAnyAge(2)) < MaxPosts
       /\ AddPost(2, Some(Profane), Some(GoodSig), None, FALSE, <<>>)
    \/ \E caller \in Callers, mode \in QueryModes : GetMessagesFor(caller, mode, DefaultLimit)

SpecFilter == InitFilter /\ [][NextFilter]_vars

\* SpecEdit: with the profanity filter off or silent, the room's admin
\* (user 1) and a user without override (user 2) post clean messages, upload
\* files, and edit with a clean or a profane body, with or without a file;
\* messages and files are up to MaxStored rows together
EditBodies == {<<2>>, Profane}

InitEdit ==
    /\ users = [u \in Users |-> PlainUser]
    /\ overrides = (1 :> Admin)
    /\ rooms = RoomRow(TRUE, TRUE, TRUE, TRUE)
    /\ config \in {NoFilter, SilentFilter}
    /\ InitCommon

NextEdit ==
    \/ \E u \in Users :
          /\ Len(messages) + Cardinality(DOMAIN files) < MaxStored /\ MsgBound
          /\ AddPost(u, Some(<<1>>), Some(GoodSig), None, FALSE, <<>>)
    \/ \E u \in Users :
          /\ Len(messages) + Cardinality(DOMAIN files) < MaxStored
          /\ UploadFile(<<1>>, u, Some(config.UPLOAD_DEFAULT_EXPIRY))
    \/ \E u \in Users, m \in 1..MaxStored, body \in EditBodies, f \in {<<>>, <<1>>} :
          /\ MsgBound
          /\ EditPost(u, m, Some(body), Some(GoodSig), f)

SpecEdit == InitEdit /\ [][NextEdit]_vars

\* SpecWhisper: the room's admin (user 1) and user 2, a moderator or a user
\* without override, post plain messages and whispers, to user 1, to user 2,
\* to a session id without users row, to the moderators, and anyone reads the
\* messages in every query mode
WhisperTargets == Whispers \cup {<<"User", 2>>}
WhisperArgs == {<<Some(<<1>>), Some(GoodSig)>>, <<Some(<<1>>), None>>}

NextWhisper ==
    \/ \E u \in Users, a \in WhisperArgs, w \in WhisperTargets, mods \in BOOLEAN :
          /\ Len(messages) < MaxStored
          /\ AddPost(u, a[1], a[2], w, mods, <<>>)
    \/ \E caller \in Callers, mode \in QueryModes : GetMessagesFor(caller, mode, DefaultLimit)

InitWhisper ==
    /\ users = [u \in Users |-> PlainUser]
    /\ overrides \in {(1 :> Admin), (1 :> Admin) @@ (2 :> Moderator)}
    /\ rooms = RoomRow(TRUE, TRUE, TRUE, TRUE)
    /\ config = NoFilter
    /\ InitCommon

SpecWhisper == InitWhisper /\ [][NextWhisper]_vars

\* SpecMods: from a room whose first admin is global or of the room, hidden
\* or visible, moderators and admins are added, hidden or visible, and
\* removed, and anyone asks for the lists of moderators
InitMods ==
    /\ \E b \in Bootstraps, visible \in BOOLEAN :
          /\ users = [u \in Users |-> IF b.users[u].moderator
                                      THEN [b.users[u] EXCEPT !.visible_mod = visible]
                                      ELSE b.users[u]]
          /\ overrides = b.overrides
    /\ rooms = RoomRow(TRUE, TRUE, TRUE, TRUE)
    /\ config = NoFilter
    /\ InitCommon

NextMods ==
    \/ \E u, by \in Users, admin \in Grants, visible \in BOOLEAN :
          SetModerator(u, by, admin, visible)
    \/ \E u, by \in Users, only \in BOOLEAN : RemoveModerator(u, by, only)
    \/ \E caller \in Users \cup {Anon} : GetMods(caller)

SpecMods == InitMods /\ [][NextMods]_vars

\* SpecPerms: the room's admin (user 1) sets, revokes and clears the
\* permissions of user 2, one or two at a time, bans and unbans them, and
\* user 2 is checked, in a room that all may write to or that none may
PermKeys == {{}, {"write"}, {"read", "write"}, {"upload"}, {"accessible", "upload"}}
PermArgs == UNION {[K -> PyTri] : K \in PermKeys}

InitPerms ==
    /\ users = [u \in Users |-> PlainUser]
    /\ overrides = (1 :> Admin)
    /\ rooms \in {RoomRow(TRUE, TRUE, TRUE, TRUE), RoomRow(TRUE, TRUE, FALSE, FALSE)}
    /\ config = NoFilter
    /\ InitCommon

NextPerms ==
    \/ \E by \in Users, perms \in PermArgs : SetPermissions(2, by, perms)
    \/ BanUser(2, 1, NoTimeout)
    \/ UnbanUser(2, 1)
    \/ \E shortcut \in {"check_read", "check_write", "check_upload"} :
          CheckPermission(2, shortcut)

SpecPerms == InitPerms /\ [][NextPerms]_vars

\* SpecPoll: the room's admin (user 1) posts messages, for all or for the
\* moderators, edits and deletes them, while a client, who is user 1 or
\* user 2 (a user without override), polls with sequence=.
\* SpecPollFair: the same, the client never ceasing to poll.
InitPoll ==
    /\ users = [u \in Users |-> PlainUser]
    /\ overrides = (1 :> Admin)
    /\ rooms = RoomRow(TRUE, TRUE, TRUE, TRUE)
    /\ config = NoFilter
    /\ now = 0
    /\ user_ban_futures = {}
    /\ user_permission_futures = {}
    /\ messages = Empty
    /\ files = Empty
    /\ disk = {}
    /\ self = Loaded(rooms)
    /\ perm_cache = Empty
    /\ last = Call("Room", "ok")
    /\ \E u \in Users : client = [user |-> u, cursor |-> 0, view |-> Empty]
    /\ inflight = <<>>

NextPoll ==
    \/ \E mods \in BOOLEAN :
          /\ Len(messages) < MaxStored /\ rooms.message_sequence < MaxChanges
          /\ AddPost(1, Some(<<1>>), Some(GoodSig), None, mods, <<>>)
    \/ \E m \in 1..MaxStored :
          /\ rooms.message_sequence < MaxChanges
          /\ EditPost(1, m, Some(<<2>>), Some(GoodSig), <<>>)
    \/ \E m \in 1..MaxStored :
          /\ rooms.message_sequence < MaxChanges
          /\ DeletePosts(<<m>>, 1)
    \/ Poll

SpecPoll == InitPoll /\ [][NextPoll]_vars

SpecPollFair == InitPoll /\ [][NextPoll]_vars /\ WF_vars(Poll)

\* SpecRace: user 2 posts and edits through other request handlers, each call
\* in its two steps, while the room's admin (user 1) bans and unbans user 2
\* and sets and clears the write override of user 2.
InitRace ==
    /\ users = [u \in Users |-> PlainUser]
    /\ overrides = (1 :> Admin)
    /\ rooms = RoomRow(TRUE, TRUE, TRUE, TRUE)
    /\ config = NoFilter
    /\ InitCommon

NextRace ==
    \/ /\ Len(messages) < MaxStored /\ MsgBound
       /\ BeginAddPost(2, <<1>>, GoodSig)
    \/ CommitAddPost
    \/ \E m \in 1..MaxStored :
          /\ MsgBound
          /\ BeginEditPost(2, m, <<2>>, GoodSig)
    \/ CommitEditPost
    \/ BanUser(2, 1, NoTimeout)
    \/ UnbanUser(2, 1)
    \/ \E write \in PyTri : SetPermissions(2, 1, [k \in {"write"} |-> write])

SpecRace == InitRace /\ [][NextRace]_vars

\* SpecTimed: the room's admin (user 1) and its moderator (user 2) ban each
\* other, for good or for a time, and unban each other, while time passes
\* and the cleanup timer runs
InitTimed ==
    /\ users = [u \in Users |-> PlainUser]
    /\ overrides = (1 :> Admin) @@ (2 :> Moderator)
    /\ rooms = RoomRow(TRUE, TRUE, TRUE, TRUE)
    /\ config = NoFilter
    /\ InitCommon

NextTimed ==
    \/ \E u, by \in Users, t \in Timeouts : BanUser(u, by, t)
    \/ \E u, by \in Users : UnbanUser(u, by)
    \/ Sweeper
    \/ Tick

SpecTimed == InitTimed /\ [][NextTimed]_vars

\* SpecSweep: changes of write and of read are scheduled for user 2, one at
\* a time, while time passes and the cleanup timer runs.
\* SpecSweepFair: the same, the timer never ceasing to run.
SweepFields == {<<NULL, "FALSE", NULL>>, <<"TRUE", NULL, NULL>>, <<"FALSE", "TRUE", "TRUE">>}

InitSweep ==
    /\ users = [u \in Users |-> PlainUser]
    /\ overrides = (1 :> Admin)
    /\ rooms = RoomRow(TRUE, TRUE, TRUE, TRUE)
    /\ config = NoFilter
    /\ InitCommon

NextSweep ==
    \/ \E at \in Times, p \in SweepFields :
          /\ user_permission_futures = {}
          /\ ScheduleFuture(2, at, p[1], p[2], p[3])
    \/ Sweeper
    \/ Tick

SpecSweep == InitSweep /\ [][NextSweep]_vars

SpecSweepFair == InitSweep /\ [][NextSweep]_vars /\ WF_vars(Sweeper)

\* SpecOrder: up to two changes of write or of read are scheduled for
\* user 2, for the same time or for different times, and
\* apply_permission_updates runs while time passes
OrderFields == {<<NULL, "FALSE", NULL>>, <<NULL, "TRUE", NULL>>, <<"FALSE", NULL, NULL>>}

NextOrder ==
    \/ \E at \in Times, p \in OrderFields :
          /\ Cardinality(user_permission_futures) < 2
          /\ ScheduleFuture(2, at, p[1], p[2], p[3])
    \/ ApplyPermissionUpdates
    \/ Tick

SpecOrder == InitSweep /\ [][NextOrder]_vars

\* SpecPrune: the room's admin uploads files that never expire, that expire
\* at once or that expire one second later, while time passes and
\* prune_files runs
Lifetimes == {None, Some(0), Some(1)}

NextPrune ==
    \/ \E lifetime \in Lifetimes :
          /\ Cardinality(DOMAIN files) < MaxStored
          /\ UploadFile(<<1>>, 1, lifetime)
    \/ PruneFiles
    \/ Tick

SpecPrune == InitSweep /\ [][NextPrune]_vars

\* SpecExpire: at a time that does not move, user 2, who has no override,
\* uploads as the upload route does and posts with a file id; the room's
\* admin (user 1) deletes all the posts of user 2 and sets the room image;
\* files are fetched and the cleanup timer runs
InitExpire ==
    /\ users = [u \in Users |-> PlainUser]
    /\ overrides = (1 :> Admin)
    /\ rooms = RoomRow(TRUE, TRUE, TRUE, TRUE)
    /\ config = NoFilter
    /\ now = MaxTime
    /\ user_ban_futures = {}
    /\ user_permission_futures = {}
    /\ messages = Empty
    /\ files = Empty
    /\ disk = {}
    /\ self = Loaded(rooms)
    /\ perm_cache = Empty
    /\ last = Call("Room", "ok")
    /\ Quiet

NextExpire ==
    \/ /\ NextFileId <= MaxStored
       /\ UploadFile(<<1>>, 2, Some(RouteLifetime))
    \/ \E f \in 1..MaxStored :
          /\ Len(messages) < MaxStored
          /\ AddPost(2, Some(<<1>>), Some(GoodSig), None, FALSE, <<f>>)
    \/ DeleteAllPosts(2, 1)
    \/ \E f \in 1..MaxStored : SetImage(f)
    \/ \E f \in 1..MaxStored : GetFile(f)
    \/ Sweeper

SpecExpire == InitExpire /\ [][NextExpire]_vars

\* SpecAdmin: moderators and admins are made, with admin=True, False or
\* None, visible or hidden, and unmade, in full or of the admin rank only;
\* users are banned and unbanned
NextAdmin ==
    \/ \E u, by \in Users, admin \in PyTri, visible \in BOOLEAN :
          SetModerator(u, by, admin, visible)
    \/ \E u, by \in Users, only \in BOOLEAN : RemoveModerator(u, by, only)
    \/ \E u, by \in Users : BanUser(u, by, NoTimeout)
    \/ \E u, by \in Users : UnbanUser(u, by)

SpecAdmin == Init /\ [][NextAdmin]_vars

\* SpecBurst: the room's admin (user 1) and a plain user (user 2) post in a
\* room that everyone may write to, through requests that run alone and
\* through one request whose transaction runs statement by statement among
\* them, at the start of the window, at its last second and one second after
NextBurst ==
    \/ \E u \in Users :
          /\ Len(messages) < MaxPosts
          /\ AddPost(u, Some(<<1>>), Some(GoodSig), None, FALSE, <<>>)
    \/ \E u \in Users :
          /\ Len(messages) < MaxPosts
          /\ BeginAddPost(u, <<1>>, GoodSig)
    \/ CountRecentPosts
    \/ InsertCountedPost
    \/ \E d \in RateSteps : Elapse(d)

SpecBurst == InitRate /\ [][NextBurst]_vars

\* SpecSeq: the room's admin (user 1) and a plain user (user 2) post clean
\* and profane messages, edit them, and delete them one by one, by lists and
\* all of one poster's at once, with the filter off or silent
SeqBodies == {<<1>>, Profane}
SeqLists == {<<1>>, <<2>>, <<1, 2>>, <<2, 1>>}

NextSeq ==
    \/ \E u \in Users, body \in SeqBodies :
          /\ Len(messages) < MaxStored /\ MsgBound
          /\ AddPost(u, Some(body), Some(GoodSig), None, FALSE, <<>>)
    \/ \E u \in Users, m \in 1..MaxStored, body \in SeqBodies :
          /\ MsgBound
          /\ EditPost(u, m, Some(body), Some(GoodSig), <<>>)
    \/ \E ids \in SeqLists, u \in Users : MsgBound /\ DeletePosts(ids, u)
    \/ \E poster, deleter \in Users : MsgBound /\ DeleteAllPosts(poster, deleter)

SpecSeq == InitEdit /\ [][NextSeq]_vars

\* ------------------------------------------------------------------ claims
AdminOnly == [NoReq EXCEPT !.admin = TRUE]
ModeratorOnly == [NoReq EXCEPT !.moderator = TRUE]
ReadOnly == [NoReq EXCEPT !.read = TRUE]

\* The override-or-default value of a capability of user u
Effective(u, column) ==
    IF u \in DOMAIN overrides /\ overrides[u][column] # NULL
    THEN overrides[u][column] = "TRUE"
    ELSE rooms[column]

\* The pending scheduled unbans of user u
Unbans(futures, u) == {f \in futures : f.user = u /\ ~f.banned}

\* The cache entry of user v is what it was
SameCacheEntry(v) ==
    /\ (v \in DOMAIN perm_cache') = (v \in DOMAIN perm_cache)
    /\ v \in DOMAIN perm_cache => perm_cache'[v] = perm_cache[v]

\* C1: a user who passes the admin check passes every check, whatever the
\* required flags, also when the resolved row is banned or grants nothing.
C1_AdminPassesAll ==
    \A u \in Users :
        check_permission(perm_cache, u, AdminOnly)
            => \A req \in Reqs : check_permission(perm_cache, u, req)

C1_Witness ==
    /\ last = Call("check_write", "True")
    /\ overrides[1].admin /\ overrides[1].banned
    /\ overrides[1].write = "FALSE" /\ overrides[1].read = "FALSE"
    /\ ~rooms.write

\* C2: for a user whose resolved row is neither admin nor moderator the
\* check is true exactly when no admin or moderator requirement is set, the
\* user is not banned and every required capability holds, each capability
\* being the override when set and the room default otherwise.
C2_PlainUserDecision ==
    \A u \in Users :
        (~UserPermissions(u)[6] /\ ~UserPermissions(u)[7]) =>
            \A req \in Reqs :
                check_permission(perm_cache, u, req) =
                    ( /\ ~req.admin /\ ~req.moderator
                      /\ ~(users[u].banned \/ OverrideOf(overrides, u).banned)
                      /\ (req.read => Effective(u, "read"))
                      /\ (req.accessible =>
                            Effective(u, "accessible") \/ Effective(u, "read"))
                      /\ (req.write => Effective(u, "write"))
                      /\ (req.upload => Effective(u, "upload")) )

C2_Witness ==
    /\ last = Call("check_accessible", "True")
    /\ ~overrides[1].moderator /\ ~overrides[1].banned /\ ~users[1].moderator
    /\ ~users[1].banned
    /\ overrides[1].accessible = "FALSE" /\ overrides[1].read = NULL
    /\ rooms.read /\ ~rooms.accessible

\* C3: set_moderator and remove_moderator by an actor who fails the admin
\* check, and ban_user, unban_user and set_permissions by an actor who fails
\* the moderator check, raise BadPermission and leave the overrides, the
\* futures and the cache entries of the other users as they were.
Refused(by) ==
    /\ last'.res \in {"BadPermission", "user is not a moderator"}
    /\ overrides' = overrides
    /\ user_ban_futures' = user_ban_futures
    /\ user_permission_futures' = user_permission_futures
    /\ \A v \in Users \ {by} : SameCacheEntry(v)

C4_TimedBanIsLifted ==
    [][\A u \in Users :
         /\ (\E by \in Users, t \in Timeouts :
               t # NoTimeout /\ t[1] > 0 /\ BanUser(u, by, t) /\ last'.res = "ok")
              => ~FreshCheck(u, ReadOnly)'
         /\ (Sweeper /\ OverrideOf(overrides, u).read = NULL
                     /\ ~UserPermissions(u)[6]
                     /\ \E f \in Unbans(user_ban_futures, u) : 0 < f.at /\ f.at <= now)
              => FreshCheck(u, ReadOnly)' = rooms.read]_vars

\* C5: ban_user with a timeout that is zero or negative bans the target and
\* schedules an unban whose time is not later than now.
C5_NonPositiveTimeoutSchedulesUnban ==
    [][\A u, by \in Users, t \in Timeouts :
         (t # NoTimeout /\ t[1] <= 0 /\ BanUser(u, by, t) /\ last'.res = "ok")
            => /\ overrides'[u].banned
               /\ \E f \in Unbans(user_ban_futures', u) : f.at <= now]_vars

\* C6: after unban_user(U) has removed a ban, no scheduled unban of U is
\* left pending.
C6_UnbanCancelsScheduledUnban ==
    [][\A u, by \in Users :
         (UnbanUser(u, by) /\ last'.res = "True")
            => Unbans(user_ban_futures', u) = {}]_vars

\* C7: ban_user raises BadPermission and changes no row when the actor is
\* not a moderator, bans himself, bans a global moderator or admin, or bans
\* a room moderator or admin without being an admin; otherwise it succeeds
\* and the target's override is banned, not moderator, not admin.
BanRefused(u, by) ==
    \/ ~FreshCheck(by, ModeratorOnly)
    \/ u = by
    \/ users[u].moderator \/ users[u].admin
    \/ (FreshCheck(u, ModeratorOnly) /\ ~FreshCheck(by, AdminOnly))

C7_BanRules ==
    [][\A u, by \in Users :
         (\E t \in Timeouts : BanUser(u, by, t)) =>
            IF BanRefused(u, by)
            THEN /\ last'.res \notin {"ok", "True", "False"}
                 /\ overrides' = overrides
                 /\ user_ban_futures' = user_ban_futures
            ELSE /\ last'.res = "ok"
                 /\ u \in DOMAIN overrides'
                 /\ overrides'[u].banned
                 /\ ~overrides'[u].moderator
                 /\ ~overrides'[u].admin]_vars

C7_Witness ==
    /\ last = Call("ban_user", "only admins can ban room mods/admins")
    /\ \E u \in Users : u \in DOMAIN overrides /\ overrides[u].banned

\* C8: on one Room instance with no other writer, whatever calls were made
\* through it, check_permission gives for every user and every requirement
\* what a freshly loaded Room gives: every cached tuple is the user's
\* current row.
C8_CacheCoherent ==
    /\ \A u \in DOMAIN perm_cache : perm_cache[u] = UserPermissions(u)
    /\ \A u \in Users \cup {Anon}, req \in Reqs :
          check_permission(perm_cache, u, req) = FreshCheck(u, req)

C8_Witness ==
    /\ 2 \in DOMAIN perm_cache
    /\ perm_cache[2][1] /\ ~perm_cache[2][4]
    /\ ~rooms.write /\ ~rooms.upload
    /\ last = Call("default_upload", "ok")

\* C9: over add_post, edit_post, delete_posts and delete_all_posts the
\* room's message_sequence never decreases, neither in the rooms row nor in
\* the value a Room instance holds, and it is strictly greater after every
\* one of these calls that succeeded and changed a message row.
MessageCalls == {"add_post", "edit_post", "delete_posts", "delete_all_posts"}

C9_MessageSequenceMonotone ==
    [][/\ rooms'.message_sequence >= rooms.message_sequence
       /\ self'.message_sequence >= self.message_sequence
       /\ (last'.op \in MessageCalls /\ last'.res = "ok" /\ messages' # messages)
             => rooms'.message_sequence > rooms.message_sequence]_vars

C9_Witness ==
    /\ last.op = "delete_posts" /\ last.res = "ok"
    /\ Len(messages) = 2
    /\ messages[1].data = None /\ messages[1].edited # None
    /\ messages[2].data = None
    /\ rooms.message_sequence > Len(messages) + 1

\* C10: in a room whose default_write is off, add_post by a user without an
\* override raises BadPermission and stores nothing; once the user's override
\* grants write (set_permissions through the same instance), add_post of a
\* well-formed message by that user succeeds and returns an id and a seqno
\* greater than those of every message stored before.
WellFormed(data, sig) == data # None /\ sig # None /\ Len(sig[1]) = SignatureSize

C10_PostAfterGrant ==
    [][\A u \in Users, a \in PostArgs :
         AddPost(u, a[1], a[2], None, FALSE, <<>>) =>
            /\ (~rooms.write /\ u \notin DOMAIN overrides /\ ~users[u].moderator)
                  => /\ last'.res = "BadPermission"
                     /\ messages' = messages
                     /\ rooms'.message_sequence = rooms.message_sequence
            /\ (/\ ~rooms.write
                /\ u \in DOMAIN overrides /\ overrides[u].write = "TRUE"
                /\ ~overrides[u].banned /\ ~users[u].banned
                /\ WellFormed(a[1], a[2])
                /\ Cardinality(RecentPosts(u)) < rate_limit_size)
                  => /\ last'.res = "ok"
                     /\ last'.ret # None
                     /\ messages'[last'.ret[1].id].user = u
                     /\ \A m \in DOMAIN messages :
                           /\ last'.ret[1].id > m
                           /\ last'.ret[1].seqno > messages[m].seqno]_vars

C10_Witness ==
    /\ last.op = "add_post" /\ last.res = "ok"
    /\ last.ret[1].session_id = 2 /\ last.ret[1].id = 2
    /\ ~rooms.write /\ ~self.default_write
    /\ overrides[2].write = "TRUE" /\ ~overrides[2].moderator
    /\ messages[1].seqno = 2

\* C11: a user who is not an admin and has rate_limit_size messages posted
\* within the trailing rate_limit_interval seconds gets PostRateLimited and
\* nothing is stored; with fewer such messages (the first five of a window,
\* or once older ones have left the window) the post is accepted.
InWindow(u) ==
    {m \in DOMAIN messages : messages[m].user = u /\ now - messages[m].posted <= 16}

C11_RateLimit ==
    [][\A u \in Users :
         (/\ AddPost(u, Some(<<1>>), Some(GoodSig), None, FALSE, <<>>)
          /\ ~FreshCheck(u, AdminOnly)
          /\ FreshCheck(u, [NoReq EXCEPT !.write = TRUE])) =>
            IF Cardinality(InWindow(u)) >= 5
            THEN /\ last'.res = "PostRateLimited"
                 /\ messages' = messages
                 /\ rooms' = rooms
                 /\ files' = files
            ELSE /\ last'.res = "ok"
                 /\ Len(messages') = Len(messages) + 1
                 /\ messages'[Len(messages')].user = u]_vars

C11_Witness ==
    /\ last = Call("add_post", "PostRateLimited")
    /\ now = 16
    /\ Len(messages) = 5
    /\ \A m \in DOMAIN messages : messages[m].user = 2 /\ messages[m].posted = 0

\* C12: an add_post that raises BadPermission, InvalidData, PostRejected or
\* PostRateLimited leaves every table as it was: no message row, no users
\* row, no file association, no change of message_sequence.
AddPostErrors == {"BadPermission", "InvalidData", "PostRejected", "PostRateLimited"}

C12_FailedPostStoresNothing ==
    [][(last'.op = "add_post" /\ last'.res \in AddPostErrors) =>
          /\ users' = users
          /\ messages' = messages
          /\ rooms' = rooms
          /\ files' = files
          /\ overrides' = overrides]_vars

\* C13 as stated: edit_post raises BadPermission and leaves the message as
\* it is whenever the caller has no write permission at the time of the edit
\* or is not the author of the existing, non-deleted message.
Exists(m) == m \in DOMAIN messages /\ messages[m].data # None
MayWrite(u) == FreshCheck(u, [NoReq EXCEPT !.write = TRUE])

Range(q) == {q[k] : k \in DOMAIN q}

DeletedStaysDeleted(m) ==
    /\ messages'[m] = messages[m]
    /\ (last'.op = "delete_posts" /\ last'.res = "ok") => m \notin Range(last'.ret[1])
    /\ \A poster, deleter \in Users :
          (/\ last'.op = "delete_all_posts" /\ last'.res = "ok"
           /\ DeleteAllPosts(poster, deleter)) =>
             last'.ret[1][1] =
                Cardinality({k \in DOMAIN messages : messages[k].user = poster
                                                     /\ messages[k].data # None})

C15_MixedDeleteRefusedWhole ==
    [][\A ids \in DelLists, u \in Users :
         (/\ DeletePosts(ids, u)
          /\ ~FreshCheck(u, ModeratorOnly)
          /\ \E m \in Range(ids) : Exists(m) /\ messages[m].user # u) =>
            /\ last'.res = "BadPermission"
            /\ messages' = messages /\ rooms' = rooms /\ files' = files]_vars

C15_Witness ==
    /\ last = Call("delete_posts", "BadPermission")
    /\ Len(messages) = 2
    /\ messages[1].user = 2 /\ messages[1].data # None
    /\ messages[2].user = 1 /\ messages[2].data # None

\* C16: delete_all_posts(poster, deleter) goes through when deleter is the
\* poster or a moderator of the room and, poster being an admin of the room,
\* deleter is an admin too; otherwise it raises BadPermission and leaves
\* users, overrides, room, messages, files and disk as they were.
MayDeleteAll(poster, deleter) ==
    /\ poster = deleter \/ FreshCheck(deleter, ModeratorOnly)
    /\ FreshCheck(poster, AdminOnly) => FreshCheck(deleter, AdminOnly)

C16_DeleteAllNeedsRank ==
    [][\A poster, deleter \in Users :
         DeleteAllPosts(poster, deleter) =>
            IF MayDeleteAll(poster, deleter)
            THEN last'.res = "ok"
            ELSE /\ last'.res = "BadPermission"
                 /\ UNCHANGED <<users, overrides, rooms, messages, files, disk>>]_vars

C16_Witness ==
    /\ last = Call("delete_all_posts", "BadPermission")
    /\ overrides = (1 :> Admin) @@ (2 :> Moderator)
    /\ Len(messages) = 2 /\ messages[2].user = 1 /\ messages[2].data # None
    /\ 2 \in DOMAIN perm_cache /\ 1 \in DOMAIN perm_cache

\* C17: a delete_all_posts(poster) that goes through leaves every message of
\* poster in the room without data and every file of poster in the room with
\* expiry 0, except the room's image, which keeps its expiry; no row of
\* messages or files is removed, and the messages and files of other users
\* and of other rooms, and the disk, stay as they were.
C17_DeleteAllEffect ==
    [][\A poster, deleter \in Users :
         (DeleteAllPosts(poster, deleter) /\ last'.res = "ok") =>
            /\ Len(messages') = Len(messages)
            /\ \A m \in DOMAIN messages :
                  IF messages[m].room = rooms.id /\ messages[m].user = poster
                  THEN messages'[m].data = None
                  ELSE messages'[m] = messages[m]
            /\ DOMAIN files' = DOMAIN files
            /\ \A f \in DOMAIN files :
                  files'[f] =
                     IF /\ files[f].room = rooms.id
                        /\ files[f].uploader = poster
                        /\ rooms.image # Some(f)
                     THEN [files[f] EXCEPT !.expiry = Some(0)]
                     ELSE files[f]
            /\ disk' = disk]_vars

\* User 1 has deleted all the posts of user 2: the message of user 2 is
\* without data, the image that user 2 uploaded has no expiry, the other file
\* of user 2 has expiry 0.
C17_Witness ==
    /\ last = Return("delete_all_posts", <<1, 1>>)
    /\ Len(messages) = 2
    /\ messages[1] = ElsewhereMessage
    /\ messages[2].user = 2 /\ messages[2].data = None
    /\ files[1] = ElsewhereFile
    /\ DOMAIN files = {1, 2, 3}
    /\ files[2].uploader = 2 /\ files[3].uploader = 2
    /\ rooms.image = Some(2) /\ files[2].expiry = None
    /\ files[3].expiry = Some(0)

\* C18: add_post and edit_post leave a file whose expiry has passed as it
\* is, without message and with the expiry it had.
C18_ExpiredFileStaysUnowned ==
    [][\A f \in DOMAIN files :
         (last'.op \in {"add_post", "edit_post"} /\ Lt(files[f].expiry, now)) =>
            files'[f] = files[f]]_vars

\* C19: apply_permission_updates leaves no future due, and run right after
\* apply_permission_updates, at the same time and with no future scheduled
\* in between, it returns 0 and leaves the overrides and the futures as they
\* were.
C19_SecondRunAppliesNothing ==
    [][ApplyPermissionUpdates =>
          /\ DueFutures' = {}
          /\ last.op = "apply_permission_updates" =>
                /\ last'.ret = Some(0)
                /\ overrides' = overrides
                /\ user_permission_futures' = user_permission_futures]_vars

\* A run that applied the futures of user 2 was followed by a run that
\* returned 0
C19_Witness ==
    /\ last = Return("apply_permission_updates", 0)
    /\ user_permission_futures = {}
    /\ 2 \in DOMAIN overrides
    /\ overrides[2] = [NewOverride EXCEPT !.write = "FALSE"]

\* C20: apply_permission_updates leaves the override rows of the users
\* without a due future as they were.  The row of a user with one due future
\* (a new row with the column defaults, if the user had none) gets the
\* future's read, write and upload where these are not NULL and keeps the
\* rest; with several due futures each of read, write and upload ends as
\* one of the futures that set it sets it, or as it was if none sets it, and
\* the other columns stay.
Columns == {"read", "write", "upload"}
Others == {"accessible", "banned", "moderator", "admin", "visible_mod"}

C20_FutureSetsOnlyItsFields ==
    [][ApplyPermissionUpdates =>
          \A u \in Users :
             LET due == {f \in DueFutures : f.user = u}
                 old == OverrideOf(overrides, u)
             IN  IF due = {}
                 THEN (u \in DOMAIN overrides') = (u \in DOMAIN overrides)
                      /\ (u \in DOMAIN overrides => overrides'[u] = overrides[u])
                 ELSE /\ u \in DOMAIN overrides'
                      /\ \A k \in Others : overrides'[u][k] = old[k]
                      /\ \A k \in Columns :
                            LET set == {f \in due : f[k] # NULL} IN
                            overrides'[u][k] \in
                               IF set = {} THEN {old[k]} ELSE {f[k] : f \in set}]_vars

\* The banned user 2 got write and upload from a future that leaves read
\* alone: read, accessible and banned are as they were
C20_Witness ==
    /\ last.op = "apply_permission_updates"
    /\ 2 \in DOMAIN overrides
    /\ overrides[2] = [BannedReader EXCEPT !.write = "FALSE"]

Padded(d) == rstrip(d, 0) # <<>> /\ rstrip(d, 0)[Len(rstrip(d, 0))] = 128
Unpadded(d) == IF Padded(d) THEN SubSeq(d, 1, Len(rstrip(d, 0)) - 1) ELSE d

\* C22: remove_session_message_padding returns data that ends in 0x80 and
\* zero or more 0x00 without these bytes, and other data unchanged.
C22_PaddingIsStripped ==
    last.op = "remove_session_message_padding" =>
       last.ret[1][2] = Unpadded(last.ret[1][1])

ReachesFilter(u) == check_write(perm_cache, u)

\* The post of u is refused by the rate limit
RateLimited(u) ==
    /\ rate_limit_size # 0
    /\ ~check_admin(perm_cache, u)
    /\ Cardinality(RecentPosts(u)) >= rate_limit_size

\* The post has stored one message, filtered or not
StoredAs(filtered) ==
    /\ last'.res = "ok"
    /\ Len(messages') = Len(messages) + 1
    /\ SubSeq(messages', 1, Len(messages)) = messages
    /\ messages'[Len(messages')].filtered = filtered

\* No message is stored
NothingStored == messages' = messages /\ rooms' = rooms /\ files' = files

\* No caller gets a filtered message in any query mode
FilteredIsHidden ==
    \A caller \in Callers, mode \in QueryModes :
       LET got == get_messages_for(perm_cache, caller, mode, DefaultLimit) IN
       \A k \in DOMAIN got : ~messages[got[k].id].filtered

\* C24 as stated: a profane post by a non-admin is rejected with nothing stored
\* in reject mode, stored as filtered in silent mode and then returned to no
\* one; a post by an admin is neither filtered nor rejected.
C24_ProfanePostFilteredOrRejected ==
    /\ []FilteredIsHidden
    /\ [][\A u \in Users, body \in {<<1>>, Profane} :
            (/\ last'.op = "add_post"
             /\ AddPost(u, Some(body), Some(GoodSig), None, FALSE, <<>>)
             /\ ReachesFilter(u))
            => IF check_admin(perm_cache, u)
               THEN last'.res # "PostRejected" /\ (last'.res = "ok" => StoredAs(FALSE))
               ELSE IF ~contains_profanity(body) THEN TRUE
               ELSE IF ~config.PROFANITY_SILENT
               THEN last'.res = "PostRejected" /\ NothingStored
               ELSE StoredAs(TRUE)]_vars

\* C24, amended: in silent mode the profane post of an author who is over the
\* rate limit raises PostRateLimited and stores nothing; otherwise as stated.
C24_ProfanePostUnlessRateLimited ==
    /\ []FilteredIsHidden
    /\ [][\A u \in Users, body \in {<<1>>, Profane} :
            (/\ last'.op = "add_post"
             /\ AddPost(u, Some(body), Some(GoodSig), None, FALSE, <<>>)
             /\ ReachesFilter(u))
            => IF check_admin(perm_cache, u)
               THEN last'.res # "PostRejected" /\ (last'.res = "ok" => StoredAs(FALSE))
               ELSE IF ~contains_profanity(body) THEN TRUE
               ELSE IF ~config.PROFANITY_SILENT
               THEN last'.res = "PostRejected" /\ NothingStored
               ELSE IF RateLimited(u)
               THEN last'.res = "PostRateLimited" /\ NothingStored
               ELSE StoredAs(TRUE)]_vars

C24_Witness ==
    /\ config.PROFANITY_SILENT
    /\ Len(messages) = 2
    /\ messages[1].filtered /\ messages[1].user = 2
    /\ ~messages[2].filtered
    /\ last = Return("get_messages_for", <<MessageDict(2)>>)

\* C25: an edit by the author (who may write, of a message that has data)
\* whose new content is silently filtered returns without error, leaves the
\* message's data, signature, data_size, seqno, edited time and filtered flag
\* and every file row as they were, and does not advance message_sequence.
C25_FilteredEditChangesNothing ==
    [][\A u \in Users, m \in 1..MaxStored, body \in EditBodies, f \in {<<>>, <<1>>} :
          (/\ last'.op = "edit_post"
           /\ EditPost(u, m, Some(body), Some(GoodSig), f)
           /\ check_write(perm_cache, u)
           /\ should_filter(perm_cache, u, body) = "True"
           /\ Exists(m) /\ messages[m].user = u)
          => /\ last'.res = "ok"
             /\ messages' = messages
             /\ files' = files
             /\ rooms'.message_sequence = rooms.message_sequence]_vars

C25_Witness ==
    /\ config.PROFANITY_SILENT
    /\ last = Call("edit_post", "ok")
    /\ Len(messages) = 1
    /\ messages[1].user = 2 /\ messages[1].edited = None /\ messages[1].seqno = 1
    /\ 1 \in DOMAIN files /\ files[1].uploader = 2 /\ files[1].message = None

\* A caller who is not a moderator gets no whisper but those addressed to them,
\* and a caller without user gets no whisper
NoWhisperLeak ==
    \A caller \in Callers, mode \in QueryModes :
       LET got == get_messages_for(perm_cache, caller, mode, DefaultLimit) IN
       ~check_moderator(perm_cache, caller) =>
          \A k \in DOMAIN got :
             (got[k].whisper \/ got[k].whisper_mods \/ got[k].whisper_to # None)
                => caller # Anon /\ got[k].whisper_to = Some(caller)

\* C26 as stated: a caller who is not a moderator gets no whisper that is not
\* addressed to them, an anonymous caller gets no whisper, and add_post with
\* whisper_to or whisper_mods by a non-moderator raises BadPermission.
C26_WhispersOnlyByAndForModerators ==
    /\ []NoWhisperLeak
    /\ [][\A u \in Users, a \in WhisperArgs, w \in WhisperTargets, mods \in BOOLEAN :
            (/\ last'.op = "add_post"
             /\ AddPost(u, a[1], a[2], w, mods, <<>>)
             /\ (w # None \/ mods)
             /\ ~check_moderator(perm_cache, u))
            => last'.res = "BadPermission" /\ messages' = messages]_vars

\* C26, amended: the whisper of a non-moderator is never stored; it raises
\* BadPermission, or InvalidData when the author may write and data or
\* signature are malformed.
C26_WhispersRefusedToNonModerators ==
    /\ []NoWhisperLeak
    /\ [][\A u \in Users, a \in WhisperArgs, w \in WhisperTargets, mods \in BOOLEAN :
            (/\ last'.op = "add_post"
             /\ AddPost(u, a[1], a[2], w, mods, <<>>)
             /\ (w # None \/ mods)
             /\ ~check_moderator(perm_cache, u))
            => /\ messages' = messages /\ users' = users
               /\ last'.res = IF check_write(perm_cache, u) /\ a[2] = None
                              THEN "InvalidData" ELSE "BadPermission"]_vars

C26_Witness ==
    /\ ~check_moderator(perm_cache, 2)
    /\ Len(messages) = 2
    /\ messages[1].whisper = Some(1) /\ messages[2].whisper = Some(2)
    /\ last = Return("get_messages_for", <<MessageDict(2)>>)

\* The effective rank of u in the room: moderator or admin, of the room or global
IsStaff(u) == u # Anon /\ (UserPermissions(u)[6] \/ UserPermissions(u)[7])

\* C27: get_mods returns empty hidden lists to a caller who is None or is
\* neither moderator nor admin of the room, returns hidden moderators or
\* admins only to a moderator or admin, and returns the same visible lists to
\* every caller.
C27_HiddenModsOnlyForStaff ==
    \A caller \in Callers :
       /\ ~IsStaff(caller) => get_mods(caller)[3] = <<>> /\ get_mods(caller)[4] = <<>>
       /\ get_mods(caller)[1] = get_mods(Anon)[1]
       /\ get_mods(caller)[2] = get_mods(Anon)[2]

C27_Witness ==
    /\ 1 \in DOMAIN overrides
    /\ overrides[1].admin /\ ~overrides[1].visible_mod
    /\ ~IsStaff(2)
    /\ get_mods(1) = <<(<<>>), (<<>>), (<<>>), (<<1>>)>>
    /\ last = Return("get_mods", <<(<<>>), (<<>>), (<<>>), (<<>>)>>)

\* C28: a successful set_permissions stores TRUE / FALSE for True / False and
\* NULL for None in the named columns of the user's override, keeps the other
\* columns (NULL in a new row), changes neither banned, moderator nor admin,
\* nor the row of anyone else, and a cleared capability of a user who is
\* neither banned nor moderator is then checked against the room default.
C28_SetPermissionsSetsNamedFields ==
    [][\A by \in Users, perms \in PermArgs :
          (/\ last'.op = "set_permissions" /\ last'.res = "ok"
           /\ SetPermissions(2, by, perms))
          => LET old == OverrideOf(overrides, 2)
                 new == overrides'[2]
             IN  /\ 2 \in DOMAIN overrides'
                 /\ \A k \in perm_types :
                       new[k] = IF k \notin DOMAIN perms THEN old[k]
                                ELSE IF perms[k] = "True" THEN "TRUE"
                                ELSE IF perms[k] = "False" THEN "FALSE"
                                ELSE NULL
                 /\ \A k \in {"banned", "moderator", "admin", "visible_mod"} :
                       new[k] = old[k]
                 /\ \A v \in DOMAIN overrides' \ {2} :
                       v \in DOMAIN overrides /\ overrides'[v] = overrides[v]
                 /\ \A k \in DOMAIN perms \cap {"read", "write"} :
                       (perms[k] = "None" /\ ~new.banned /\ ~new.moderator /\ ~new.admin)
                          => check_permission(perm_cache, 2, [NoReq EXCEPT ![k] = TRUE])'
                                = rooms[k]]_vars

C28_Witness ==
    /\ last = Call("set_permissions", "ok")
    /\ 2 \in DOMAIN overrides
    /\ overrides[2] = [NewOverride EXCEPT !.read = "FALSE", !.upload = "TRUE", !.banned = TRUE]
    /\ ~rooms.write

\* Message m is one that the query gives to the client
ClientVisible(m) ==
    /\ m \in DOMAIN messages
    /\ messages[m].room = self.id
    /\ ~messages[m].filtered
    /\ whisper_clause(check_moderator(perm_cache, client.user), client.user, messages[m])

\* sequence=N gives the visible messages with seqno > N, deleted ones too, by
\* ascending seqno
AscendingAfter ==
    \A N \in 0..MaxChanges :
       LET got == get_messages_for(perm_cache, client.user, <<"sequence", N>>, DefaultLimit) IN
       /\ \A k \in DOMAIN got : got[k].seqno > N /\ (k > 1 => got[k - 1].seqno < got[k].seqno)
       /\ \A m \in DOMAIN messages :
             (ClientVisible(m) /\ messages[m].seqno > N)
                => \E k \in DOMAIN got : got[k] = MessageDict(m)

\* Of every visible message that was last changed at or before the client's
\* seqno, the client holds the row as it is now
NeverSkipped ==
    \A m \in DOMAIN messages :
       (ClientVisible(m) /\ messages[m].seqno <= client.cursor)
          => m \in DOMAIN client.view /\ client.view[m] = MessageDict(m)

\* The client holds the current row of every visible message
CaughtUp ==
    \A m \in DOMAIN messages :
       ClientVisible(m) => m \in DOMAIN client.view /\ client.view[m] = MessageDict(m)

\* C29: sequence=N gives the messages with seqno > N in ascending seqno order,
\* soft-deleted ones included; the client that keeps polling with the largest
\* seqno it has received holds the current row of every visible message up to
\* that seqno, and whatever was posted, edited or deleted, the client comes
\* to hold the current row of every visible message.
C29_PollingObservesEveryChange ==
    /\ []AscendingAfter
    /\ []NeverSkipped
    /\ []<>CaughtUp

C29_Witness ==
    /\ client.user = 2
    /\ Len(messages) = 2
    /\ messages[1].data = None /\ messages[1].seqno = 3
    /\ messages[2].whisper_mods
    /\ client.cursor = 3
    /\ client.view = (1 :> MessageDict(1))

\* A transaction of add_post or edit_post of another request stores or
\* changes a message
Commits ==
    /\ CommitAddPost \/ CommitEditPost
    /\ messages' # messages

\* C30: when the transaction of an add_post or edit_post stores or changes a
\* message of user U, U has the write permission by what is committed at that
\* moment: no ban of U and no revocation of U's write permission committed
\* between the call's permission check and its transaction.
C30_NoPostAfterCommittedRevocation ==
    [][Commits => check_write(Empty, inflight[1].user)]_vars

\* C31: while the override row of a user is the one of a ban (ban_user has
\* succeeded and no unban_user since), check_permission on a freshly loaded
\* Room is false for the user whatever is required, whatever set_moderator,
\* remove_moderator and set_permissions calls came in between.
C31_BannedIsDeniedEverything ==
    \A u \in Users :
       (u \in DOMAIN overrides /\ overrides[u].banned)
          => \A req \in Reqs : ~FreshCheck(u, req)

\* The override row of user u is banned
IsBanned(ov, u) == u \in DOMAIN ov /\ ov[u].banned

\* At most one scheduled unban per user
AtMostOneUnban ==
    \A u \in Users : Cardinality(Unbans(user_ban_futures, u)) <= 1

Reached == {f \in user_permission_futures : f.at <= now}

\* C33: a run of the timer merges every future whose `at` has been reached
\* into the override row of its user and deletes it, and leaves the futures
\* whose `at` is later than now, and the rows of their users, as they are;
\* with the timer running again and again, there is always a later moment at
\* which no future whose `at` has been reached is pending.
C33_DueFuturesAreApplied ==
    /\ [][Sweeper =>
            /\ user_permission_futures' = user_permission_futures \ Reached
            /\ \A u \in Users :
                  LET due == {f \in Reached : f.user = u} IN
                  IF due = {}
                  THEN /\ (u \in DOMAIN overrides') = (u \in DOMAIN overrides)
                       /\ u \in DOMAIN overrides => overrides'[u] = overrides[u]
                  ELSE \A f \in due :
                          due = {f} =>
                             /\ u \in DOMAIN overrides'
                             /\ overrides'[u] = MergeFuture(OverrideOf(overrides, u), f)]_vars
    /\ []<>(Reached = {})

C33_Witness ==
    /\ now = MaxTime
    /\ last = Call("test_timer", "ok")
    /\ user_permission_futures = {}
    /\ 2 \in DOMAIN overrides
    /\ overrides[2] = [NewOverride EXCEPT !.read = "FALSE", !.write = "TRUE", !.upload = "TRUE"]

\* C34: when apply_permission_updates applies several futures of a user that
\* set the same column, the column ends with the value of one of those with
\* the latest `at`.
C34_LatestFutureWins ==
    [][ApplyPermissionUpdates =>
          \A u \in Users, k \in {"read", "write", "upload"} :
             LET setters == {f \in Reached : f.user = u /\ f[k] # NULL} IN
             setters # {} =>
                \E f \in setters :
                   /\ \A g \in setters : g.at <= f.at
                   /\ overrides'[u][k] = f[k]]_vars

\* C35: the paths of the file rows that a run of prune_files deletes are
\* unlinked in that run, the count returned is the number of rows deleted,
\* and no row with a NULL expiry is deleted.
C35_PrunedRowsAreUnlinked ==
    [][PruneFiles =>
          LET deleted == DOMAIN files \ DOMAIN files' IN
          /\ deleted \cap disk' = {}
          /\ last'.ret = Some(Cardinality(deleted))
          /\ \A f \in DOMAIN files : files[f].expiry = None => f \in DOMAIN files']_vars

\* C36: a file whose expiry is not later than now stays so for as long as
\* its row exists: no call gives it a later expiry or none, and get_file
\* does not return it.
C36_ExpiredFileStaysExpired ==
    [][\A f \in DOMAIN files :
         (Le(files[f].expiry, now) /\ f \in DOMAIN files')
            => Le(files'[f].expiry, now') /\ get_file(f)' = None]_vars

\* C37: the file that the room's row names as its image has no expiry.
C37_RoomImageNeverExpires ==
    (rooms.image # None /\ rooms.image[1] \in DOMAIN files)
       => files[rooms.image[1]].expiry = None

\* C38: every override row with admin = TRUE has moderator = TRUE.
C38_AdminIsModerator ==
    \A u \in DOMAIN overrides : overrides[u].admin => overrides[u].moderator

\* An admin of the room has lost the admin rank only
C38_Witness ==
    /\ last = Call("remove_moderator", "ok")
    /\ 2 \in DOMAIN overrides
    /\ overrides[2].moderator /\ ~overrides[2].admin /\ ~overrides[2].visible_mod
    /\ 1 \in DOMAIN overrides /\ overrides[1].banned

\* C39: for every user who is not an admin of the room, however the add_post
\* calls of that user interleave, the user's messages whose posted time lies
\* within one window of rate_limit_interval seconds never number more than
\* rate_limit_size.
PostedWithin(u, t) ==
    {m \in DOMAIN messages :
        /\ messages[m].room = self.id
        /\ messages[m].user = u
        /\ messages[m].posted >= t
        /\ messages[m].posted <= t + rate_limit_interval}

C39_RateLimitUnderConcurrency ==
    \A u \in Users :
        ~FreshCheck(u, AdminOnly) =>
            \A t \in 0..(rate_limit_interval + MaxTime) :
                Cardinality(PostedWithin(u, t)) <= rate_limit_size

\* C40: within the room no two messages carry the same seqno and no seqno is
\* above the room's message_sequence; and whenever a message is posted,
\* edited or deleted, every row the step stores or changes gets a seqno above
\* the message_sequence of before, and the last of them the message_sequence
\* of after.
InRoom == {m \in DOMAIN messages : messages[m].room = self.id}

Stamped ==
    {m \in DOMAIN messages' : m \notin DOMAIN messages \/ messages'[m] # messages[m]}

SeqnosDistinct ==
    /\ \A m1, m2 \in InRoom : m1 # m2 => messages[m1].seqno # messages[m2].seqno
    /\ \A m \in InRoom : messages[m].seqno <= rooms.message_sequence

C40_SeqnoUniqueAndCurrent ==
    /\ []SeqnosDistinct
    /\ [][messages' # messages =>
            /\ \A m \in Stamped : messages'[m].seqno > rooms.message_sequence
            /\ \E m \in Stamped : messages'[m].seqno = rooms'.message_sequence]_vars

C40_Witness ==
    /\ last.op = "delete_posts" /\ last.res = "ok"
    /\ Len(messages) = 2
    /\ messages[1].data = None /\ messages[2].data = None
    /\ {messages[1].seqno, messages[2].seqno} = {3, 4}
    /\ rooms.message_sequence = 4

====
